---- MODULE Spec2Model ----
(***************************************************************************)
(* Mortgage platform API: the application status state machine, its        *)
(* conditional write against the DynamoDB table, the status history items  *)
(* and the EventBridge publication, as implemented by the Lambda handlers  *)
(* createApplication, updateStatus and statusChangeWebhook.                *)
(*                                                                         *)
(* Every Lambda invocation is an independent process.  Each action is one  *)
(* stretch of handler code between two awaited calls on a shared service   *)
(* (DynamoDB, EventBridge): the local code that precedes an awaited call   *)
(* runs in the same step as the previous call's completion.                *)
(***************************************************************************)
EXTENDS Integers, Sequences, FiniteSets, TLC

\* ------------------------------------------------------------------ bounds
MaxWrites == 2      \* invocations that may send a write to the table
MaxClock == 2       \* last millisecond the wall clock reaches

\* --------------------------------------------------------------- constants
Reqs == {1, 2}      \* Lambda invocations that run at the same time
Apps == {"a1"}
Users == {"u1", "u2"}
UserRoles == {"borrower", "loan_officer", "admin"}

DRAFT == "DRAFT"
SUBMITTED == "SUBMITTED"
UNDER_REVIEW == "UNDER_REVIEW"
DOCUMENTS_REQUESTED == "DOCUMENTS_REQUESTED"
APPROVED == "APPROVED"
DENIED == "DENIED"
WITHDRAWN == "WITHDRAWN"

ApplicationStatus ==
  {DRAFT, SUBMITTED, UNDER_REVIEW, DOCUMENTS_REQUESTED, APPROVED, DENIED, WITHDRAWN}

\* values that stand for null / undefined
NoItem == [null |-> TRUE]
NoUser == [null |-> TRUE]
NoStatus == "NO_STATUS"
NoId == "NO_ID"
NoNotes == "NO_NOTES"
NoResponse == [null |-> TRUE]
NoSignature == [null |-> TRUE]
NoBody == "NO_BODY"
NoBatch == [null |-> TRUE]
NoCall == [null |-> TRUE]
NoQueue == [null |-> TRUE]
NoPage == [null |-> TRUE]

\* the borrowerInfo and propertyInfo of a request that createApplicationSchema
\* accepts (the fields the processor reads)
SomeBorrowerInfo ==
  [firstName |-> "Ann", lastName |-> "Lee", email |-> "ann@example.com", annualIncome |-> 1]
SomePropertyInfo == [loanAmount |-> 1, downPaymentPercentage |-> 20]

\* the callers: the borrower u1, and u2 in each of the three roles
AuthenticatedUser ==
  {[userId |-> "u1", role |-> "borrower"]} \cup [userId : {"u2"}, role : UserRoles]

VARIABLES
  store,      \* METADATA items of the table: [Apps -> item or NoItem]
  history,    \* STATUS#<timestamp> items of the table (a set; PK, SK is the key)
  bus,        \* events accepted by EventBridge, in order
  clock,      \* wall clock at its last reading, in milliseconds
  inv,        \* the running Lambda invocations: [Reqs -> locals of the handler]
  obs,        \* observation of each invocation (history variable, not program state)
  commits,    \* log of committed status writes (history variable)
  writers,    \* number of invocations that have sent a write to the table
  processor,  \* the applicationProcessor invocation: its batch, position, errors, log
  call,       \* a call of a pure function: its arguments and its outcome
  queue,      \* the processing queue: [message id -> body, receive count, place]
  web         \* the page the browser shows: its React state and pending promises

vars == <<store, history, bus, clock, inv, obs, commits, writers, processor, call, queue,
          web>>

\* ------------------------------------------------------------ validators.ts
STATUS_TRANSITIONS ==
  [s \in ApplicationStatus |->
     CASE s = DRAFT -> <<SUBMITTED, WITHDRAWN>>
       [] s = SUBMITTED -> <<UNDER_REVIEW, DOCUMENTS_REQUESTED, WITHDRAWN>>
       [] s = UNDER_REVIEW -> <<DOCUMENTS_REQUESTED, APPROVED, DENIED>>
       [] s = DOCUMENTS_REQUESTED -> <<UNDER_REVIEW, WITHDRAWN>>
       [] s = APPROVED -> <<>>
       [] s = DENIED -> <<>>
       [] s = WITHDRAWN -> <<>>]

\* Array.prototype.includes
includes(arr, x) == \E i \in DOMAIN arr : arr[i] = x

\* faulty variant: the table without DOCUMENTS_REQUESTED -> WITHDRAWN
validateStatusTransition_NoDocsWithdraw(currentStatus, newStatus) ==
  /\ includes(STATUS_TRANSITIONS[currentStatus], newStatus)
  /\ ~(currentStatus = DOCUMENTS_REQUESTED /\ newStatus = WITHDRAWN)

\* faulty variant: APPROVED may go to WITHDRAWN, as in the shared package's
\* table
validateStatusTransition_ApprovedWithdraw(currentStatus, newStatus) ==
  \/ includes(STATUS_TRANSITIONS[currentStatus], newStatus)
  \/ (currentStatus = APPROVED /\ newStatus = WITHDRAWN)

validateStatusTransition(currentStatus, newStatus) ==
  LET allowedTransitions == STATUS_TRANSITIONS[currentStatus]
  IN  includes(allowedTransitions, newStatus)

\* STATUS_TRANSITIONS[currentStatus] is undefined for a key the object does
\* not have, and `allowedTransitions.includes` on undefined throws a TypeError
validateStatusTransitionThrows(currentStatus, newStatus) ==
  currentStatus \notin DOMAIN STATUS_TRANSITIONS

\* ------------------------------------------------------------------ auth.ts
hasElevatedRole(user) == user.role = "admin" \/ user.role = "loan_officer"

\* -------------------------------------------------------------- response.ts
success(body, statusCode) ==
  [statusCode |-> statusCode, success |-> TRUE, data |-> body, message |-> <<>>]

error(message, statusCode) ==
  [statusCode |-> statusCode, success |-> FALSE, data |-> NoItem, message |-> message]

InternalServerError == error(<<"Internal server error">>, 500)

\* ---------------------------------------------------------- dynamoService.ts
buildPK(applicationId) == <<"APP", applicationId>>

buildUserGSI1PK(userId) == <<"USER", userId>>

mapRecordToApplication(record) ==
  [applicationId |-> record.applicationId,
   userId |-> record.userId,
   status |-> record.status,
   borrowerInfo |-> record.borrowerInfo,
   propertyInfo |-> record.propertyInfo,
   createdAt |-> record.createdAt,
   updatedAt |-> record.updatedAt,
   notes |-> record.notes]

\* GetCommand on the METADATA item
getApplication(applicationId) ==
  IF store[applicationId] = NoItem
    THEN NoItem
    ELSE mapRecordToApplication(store[applicationId])

\* faulty variant: an UpdateCommand without the ConditionExpression
ConditionHolds_Always(item, prevStatus) == item # NoItem

\* ConditionExpression '#status = :prevStatus' of the UpdateCommand
ConditionHolds(item, prevStatus) ==
  /\ item # NoItem
  /\ item.status = prevStatus

\* UpdateExpression 'SET #status = :newStatus, updatedAt = :now,
\* GSI2PK = :newStatus' (+ ', notes = :notes' when notes are given)
ApplyUpdate(item, newStatus, now, notes) ==
  [item EXCEPT !.status = newStatus,
               !.updatedAt = now,
               !.GSI2PK = newStatus,
               !.notes = IF notes # NoNotes THEN notes ELSE @]

historyRecord(applicationId, previousStatus, newStatus, now, notes) ==
  [PK |-> buildPK(applicationId),
   SK |-> <<"STATUS", now>>,
   previousStatus |-> previousStatus,
   newStatus |-> newStatus,
   timestamp |-> now,
   notes |-> notes]

\* PutCommand without a condition: an item with the same key is replaced
PutItem(items, item) ==
  {h \in items : ~(h.PK = item.PK /\ h.SK = item.SK)} \cup {item}

\* ------------------------------------------------------ eventBridgeService.ts
StatusChangeEvent(applicationId, previousStatus, newStatus, userId, now) ==
  [applicationId |-> applicationId,
   previousStatus |-> previousStatus,
   newStatus |-> newStatus,
   userId |-> userId,
   timestamp |-> now]

\* ------------------------------------------------------------- invocations
IdleInv ==
  [handler |-> "none", pc |-> "idle", user |-> NoUser, applicationId |-> NoId,
   newStatus |-> NoStatus, notes |-> NoNotes, application |-> NoItem,
   previousStatus |-> NoStatus, valid |-> FALSE, now |-> 0, updated |-> NoItem,
   body |-> NoBody, response |-> NoResponse]

IdleObs ==
  [attempted |-> FALSE, committed |-> FALSE, statusAtWrite |-> NoStatus,
   readAt |-> 0, since |-> <<>>, historyPut |-> FALSE, publishAttempted |-> FALSE,
   putEvents |-> "none", published |-> {}]

\* A finished invocation shares nothing with the others any more: its
\* response is observed in the state right after its last step, and its slot
\* is released before anything else runs.
Running == \A r \in Reqs : inv[r].pc # "done"

\* An invocation that is rejected in its first step reads at most the
\* METADATA item and writes nothing, so its step commutes with the steps of
\* the other invocations and its outcome depends on that item alone.  The
\* rejected invocations are explored against every initial table, before
\* the first write is sent.
Untouched == writers = 0 /\ \A q \in Reqs : inv[q].pc = "idle"

Wrote(rec) == rec.pc # "done" \/ rec.response.statusCode = 201

\* invocations start in slot order (the slots are interchangeable)
CanStart(r) ==
  /\ Running
  /\ inv[r].pc = "idle"
  /\ \A q \in Reqs : q < r => inv[q].pc # "idle"

\* the entry step of a handler, ending in state rec of the invocation
Enter(r, rec) ==
  /\ IF Wrote(rec)
       THEN /\ writers < MaxWrites
            /\ writers' = writers + 1
       ELSE /\ Untouched
            /\ UNCHANGED writers
  /\ inv' = [inv EXCEPT ![r] = rec]
  /\ obs' = [obs EXCEPT ![r] = [IdleObs EXCEPT !.readAt = Len(commits)]]

Finish(rec, response) == [rec EXCEPT !.pc = "done", !.response = response]

Init ==
  /\ \/ store = [a \in Apps |-> NoItem]
     \/ \E s \in ApplicationStatus :
          store = [a \in Apps |->
                     [applicationId |-> a, userId |-> "u1", status |-> s,
                      borrowerInfo |-> SomeBorrowerInfo,
                      propertyInfo |-> SomePropertyInfo,
                      createdAt |-> 0, updatedAt |-> 0, notes |-> NoNotes,
                      PK |-> buildPK(a), SK |-> "METADATA",
                      GSI1PK |-> buildUserGSI1PK("u1"), GSI2PK |-> s]]
  /\ history = {}
  /\ bus = <<>>
  /\ clock = 1
  /\ inv = [r \in Reqs |-> IdleInv]
  /\ obs = [r \in Reqs |-> IdleObs]
  /\ commits = <<>>
  /\ writers = 0
  /\ processor = NoBatch
  /\ call = NoCall
  /\ queue = NoQueue
  /\ web = NoPage

\* ------------------------------------------------------------------- clock
\* new Date(): time passes, then the clock is read (the time that passes
\* between two readings is observed by the later one)
Now(now) ==
  /\ now \in clock..MaxClock
  /\ clock' = now

\* the response has been delivered: the invocation ends and its slot is
\* free (the running invocations are kept in the lowest slots)
Release(f, r, idle) ==
  [q \in Reqs |-> IF q < r THEN f[q] ELSE IF q + 1 \in Reqs THEN f[q + 1] ELSE idle]

Return(r) ==
  /\ inv[r].pc = "done"
  /\ inv' = Release(inv, r, IdleInv)
  /\ obs' = Release(obs, r, IdleObs)
  /\ UNCHANGED <<store, history, bus, clock, commits, writers, processor, call, queue, web>>

\* ------------------------------------------------- handlers/updateStatus.ts
\* request inputs: the authorizer's user, the path parameter, the body; a
\* body is text that JSON.parse rejects, JSON that updateStatusBodySchema
\* rejects, or {status: <a status>}
MalformedJson == "MALFORMED_JSON"
UpdateStatusBodies == ApplicationStatus \cup {"INVALID_STATUS", MalformedJson}
NotesInputs == {NoNotes}

\* faulty variant: the access check lets every authenticated caller through
canUpdate_Anyone(application, user) == user # NoUser

canUpdate(application, user) ==
  LET isOwner == application.userId = user.userId
  IN  isOwner \/ hasElevatedRole(user)

\* the handler from its entry to the call of updateApplicationStatus, which
\* takes `now` before it sends the UpdateCommand
UpdateStatusEntry(user, applicationId, status, notes, now) ==
  LET req == [IdleInv EXCEPT !.handler = "updateStatus", !.user = user,
                             !.applicationId = applicationId, !.body = status]
      parsed == [req EXCEPT !.newStatus = status, !.notes = notes]
      application == getApplication(applicationId)
      loaded == [parsed EXCEPT !.application = application]
      checked == [loaded EXCEPT !.previousStatus = application.status,
                                !.valid = validateStatusTransition(application.status, status)]
  IN  IF user = NoUser
        THEN Finish(req, error(<<"Unauthorized">>, 401))
      ELSE IF applicationId = NoId
        THEN Finish(req, error(<<"applicationId is required">>, 400))
      ELSE IF status = MalformedJson
        THEN Finish(req, InternalServerError)
      ELSE IF status \notin ApplicationStatus
        THEN Finish(req, error(<<"Validation failed">>, 400))
      ELSE IF application = NoItem
        THEN Finish(parsed, error(<<"Application not found">>, 404))
      ELSE IF ~canUpdate(application, user)
        THEN Finish(loaded, error(<<"Access denied">>, 403))
      ELSE IF validateStatusTransitionThrows(application.status, status)
        THEN Finish(loaded, InternalServerError)
      ELSE IF ~checked.valid
        THEN Finish(checked, error(<<"Invalid status transition from",
                                     application.status, "to", status>>, 400))
      ELSE [checked EXCEPT !.pc = "update", !.now = now]

UpdateStatusRequest(r) ==
  /\ CanStart(r)
  /\ \E user \in AuthenticatedUser \cup {NoUser},
        applicationId \in Apps \cup {NoId},
        status \in UpdateStatusBodies,
        notes \in NotesInputs,
        now \in clock..MaxClock :
       /\ Now(now)
       /\ Enter(r, UpdateStatusEntry(user, applicationId, status, notes, now))
  /\ UNCHANGED <<store, history, bus, commits, processor, call, queue, web>>

\* ------------------------------------------- handlers/statusChangeWebhook.ts
WEBHOOK_SECRET == "default-secret-for-dev"
Secrets == {WEBHOOK_SECRET, "other-secret"}
ExternalStatuses ==
  {"pending_review", "documents_needed", "approved", "rejected", "cancelled",
   "unknown_status"}
Providers == {"p1"}

EXTERNAL_STATUS_MAP ==
  [e \in {"pending_review", "documents_needed", "approved", "rejected", "cancelled"} |->
     CASE e = "pending_review" -> UNDER_REVIEW
       [] e = "documents_needed" -> DOCUMENTS_REQUESTED
       [] e = "approved" -> APPROVED
       [] e = "rejected" -> DENIED
       [] e = "cancelled" -> WITHDRAWN]

mapExternalStatus(externalStatus) ==
  IF externalStatus \in DOMAIN EXTERNAL_STATUS_MAP
    THEN EXTERNAL_STATUS_MAP[externalStatus]
    ELSE NoStatus

\* createHmac('sha256', secret).update(payload).digest('hex'), kept symbolic
HmacSha256(secret, payload) == <<"sha256", secret, payload>>

\* a header value: the hex digits it starts with (a digest, or none) and the
\* text after them
EmptySignature == [digest |-> <<>>, tail |-> ""]
SignatureHeaders(rawBody) ==
  {NoSignature}
    \cup [digest : {<<>>} \cup {HmacSha256(k, rawBody) : k \in Secrets}
                   \cup {HmacSha256(WEBHOOK_SECRET,
                                    [rawBody EXCEPT !.externalStatus = "approved"])},
          tail : {"", "zz"}]

\* Buffer.from(text, 'hex') decodes up to the first character that is not a
\* hex digit
BufferFromHex(signature) == signature.digest

verifySignature(payload, signature) ==
  LET expectedSignature == [digest |-> HmacSha256(WEBHOOK_SECRET, payload), tail |-> ""]
      signatureBuffer == BufferFromHex(signature)
      expectedBuffer == BufferFromHex(expectedSignature)
  IN  IF Len(signatureBuffer) # Len(expectedBuffer)
        THEN FALSE
        ELSE signatureBuffer = expectedBuffer

\* raw bodies: not JSON at all, JSON that fails webhookBodySchema, or a
\* well-formed notification
WebhookBodies ==
  [kind : {"malformed", "bad_schema", "ok"}, applicationId : Apps,
   externalStatus : ExternalStatuses, provider : Providers]

NotesFromWebhook(provider) == "Updated via webhook from " \o provider

\* faulty variant: the parsed body is used without the schema check
WebhookEntry_SchemaUnchecked(signature, rawBody, now) ==
  LET req == [IdleInv EXCEPT !.handler = "statusChangeWebhook"]
      mappedStatus == mapExternalStatus(rawBody.externalStatus)
      application == getApplication(rawBody.applicationId)
      mapped == [req EXCEPT !.applicationId = rawBody.applicationId,
                            !.newStatus = mappedStatus,
                            !.notes = NotesFromWebhook(rawBody.provider)]
      loaded == [mapped EXCEPT !.application = application]
  IN  IF signature = NoSignature \/ signature = EmptySignature
        THEN Finish(req, error(<<"Missing signature">>, 401))
      ELSE IF ~verifySignature(rawBody, signature)
        THEN Finish(req, error(<<"Invalid signature">>, 401))
      ELSE IF rawBody.kind = "malformed"
        THEN Finish(req, InternalServerError)
      ELSE IF mappedStatus = NoStatus
        THEN Finish(req, error(<<"Unknown external status:", rawBody.externalStatus>>, 400))
      ELSE IF application = NoItem
        THEN Finish(mapped, error(<<"Application not found">>, 404))
      ELSE [loaded EXCEPT !.pc = "update", !.previousStatus = application.status,
                          !.now = now]

WebhookEntry(signature, rawBody, now) ==
  LET req == [IdleInv EXCEPT !.handler = "statusChangeWebhook"]
      mappedStatus == mapExternalStatus(rawBody.externalStatus)
      application == getApplication(rawBody.applicationId)
      mapped == [req EXCEPT !.applicationId = rawBody.applicationId,
                            !.newStatus = mappedStatus,
                            !.notes = NotesFromWebhook(rawBody.provider)]
      loaded == [mapped EXCEPT !.application = application]
  IN  IF signature = NoSignature \/ signature = EmptySignature
        THEN Finish(req, error(<<"Missing signature">>, 401))
      ELSE IF ~verifySignature(rawBody, signature)
        THEN Finish(req, error(<<"Invalid signature">>, 401))
      ELSE IF rawBody.kind = "malformed"
        THEN Finish(req, InternalServerError)
      ELSE IF rawBody.kind = "bad_schema"
        THEN Finish(req, error(<<"Validation failed">>, 400))
      ELSE IF mappedStatus = NoStatus
        THEN Finish(req, error(<<"Unknown external status:", rawBody.externalStatus>>, 400))
      ELSE IF application = NoItem
        THEN Finish(mapped, error(<<"Application not found">>, 404))
      ELSE [loaded EXCEPT !.pc = "update", !.previousStatus = application.status,
                          !.now = now]

WebhookRequest(r) ==
  /\ CanStart(r)
  /\ \E rawBody \in WebhookBodies :
       \E signature \in SignatureHeaders(rawBody) :
         \E now \in clock..MaxClock :
           /\ Now(now)
           /\ Enter(r, WebhookEntry(signature, rawBody, now))
  /\ UNCHANGED <<store, history, bus, commits, processor, call, queue, web>>

\* ---------------------------------- dynamoService.updateApplicationStatus
\* faulty variant: the exception is swallowed and the handler goes on with the
\* record it read
OnConditionFailed_ReturnCurrent(rec) ==
  [rec EXCEPT !.pc = "publish", !.updated = rec.application]

\* The UpdateCommand throws ConditionalCheckFailedException when the
\* condition fails; updateApplicationStatus does not catch it, the handler's
\* catch block turns it into the generic 500 response.
OnConditionFailed(rec) == Finish(rec, InternalServerError)

\* once the UpdateCommand has been sent, the handler reads nothing of the
\* caller but the userId (the role was only read by canUpdate)
AfterAccessCheck(user) ==
  IF user = NoUser THEN NoUser ELSE [userId |-> user.userId]

\* the writes that have committed since position n of the log
CommitsSince(n) == SubSeq(commits, n + 1, Len(commits))

UpdateItem(r) ==
  /\ Running
  /\ inv[r].pc = "update"
  /\ LET I == inv[r]
         item == store[I.applicationId]
         newItem == ApplyUpdate(item, I.newStatus, I.now, I.notes)
     IN  IF ConditionHolds(item, I.previousStatus)
           THEN /\ store' = [store EXCEPT ![I.applicationId] = newItem]
                /\ inv' = [inv EXCEPT ![r] = [I EXCEPT !.pc = "history",
                                                       !.user = AfterAccessCheck(I.user),
                                                       !.updated = mapRecordToApplication(newItem)]]
                /\ commits' = Append(commits,
                                [applicationId |-> I.applicationId, from |-> item.status,
                                 to |-> newItem.status, handler |-> I.handler])
                /\ obs' = [obs EXCEPT ![r].attempted = TRUE, ![r].committed = TRUE,
                                      ![r].statusAtWrite = item.status,
                                      ![r].since = CommitsSince(obs[r].readAt)]
           ELSE /\ inv' = [inv EXCEPT ![r] = OnConditionFailed(
                                               [I EXCEPT !.user = AfterAccessCheck(I.user)])]
                /\ obs' = [obs EXCEPT ![r].attempted = TRUE,
                                      ![r].statusAtWrite = item.status,
                                      ![r].since = CommitsSince(obs[r].readAt)]
                /\ UNCHANGED <<store, commits>>
  /\ UNCHANGED <<history, bus, clock, writers, processor, call, queue, web>>

\* After the history PutCommand: updateApplicationStatus returns the mapped
\* ALL_NEW attributes (null when there are none) and the handler goes on.
AfterHistory(rec) ==
  IF rec.handler = "statusChangeWebhook"
    THEN Finish(rec, success([received |-> TRUE], 200))
  ELSE IF rec.updated = NoItem
    THEN Finish(rec, error(<<"Failed to update application">>, 500))
  ELSE [rec EXCEPT !.pc = "publish"]

\* PutCommand of the STATUS#<now> item; it may be rejected by the service
\* (throttling, outage), which throws into the handler's catch block
PutHistory(r) ==
  /\ Running
  /\ inv[r].pc = "history"
  /\ LET I == inv[r]
     IN  \E ok \in BOOLEAN :
           IF ok
             THEN /\ history' = PutItem(history,
                                  historyRecord(I.applicationId, I.previousStatus,
                                                I.newStatus, I.now, I.notes))
                  /\ inv' = [inv EXCEPT ![r] = AfterHistory(I)]
                  /\ obs' = [obs EXCEPT ![r].historyPut = TRUE]
             ELSE /\ inv' = [inv EXCEPT ![r] = Finish(I, InternalServerError)]
                  /\ UNCHANGED <<history, obs>>
  /\ UNCHANGED <<store, bus, clock, commits, writers, processor, call, queue, web>>

\* ------------------------------------ eventBridgeService.publishStatusChange
\* faulty variant: the acting caller instead of the owner
EventUserId_Caller(rec) == rec.user.userId

\* the userId argument the updateStatus handler passes to publishStatusChange
EventUserId(rec) == rec.application.userId

\* the detail of the PutEventsCommand, stamped when the event is built
publishStatusChange(applicationId, previousStatus, newStatus, userId, now) ==
  StatusChangeEvent(applicationId, previousStatus, newStatus, userId, now)

\* what client.send(PutEventsCommand) can do: accept the entry; resolve with
\* the entry reported as failed (FailedEntryCount = 1), which the code does
\* not read; or reject, which throws into the handler's catch block
PutEventsOutcomes == {"accepted", "failed_entry", "thrown"}

PublishStatusChange(r) ==
  /\ Running
  /\ inv[r].pc = "publish"
  /\ LET I == inv[r]
     IN  \E outcome \in PutEventsOutcomes, now \in clock..MaxClock :
           /\ Now(now)
           /\ bus' = IF outcome = "accepted"
                       THEN Append(bus, publishStatusChange(I.applicationId,
                                                            I.previousStatus, I.newStatus,
                                                            EventUserId(I), now))
                       ELSE bus
           /\ inv' = [inv EXCEPT ![r] = IF outcome = "thrown"
                                          THEN Finish(I, InternalServerError)
                                          ELSE Finish(I, success(I.updated, 200))]
           /\ obs' = [obs EXCEPT ![r].publishAttempted = TRUE,
                                 ![r].putEvents = outcome,
                                 ![r].published = IF outcome = "accepted"
                                                    THEN @ \cup {Len(bus) + 1} ELSE @]
  /\ UNCHANGED <<store, history, commits, writers, processor, call, queue, web>>

\* -------------------------------------------- handlers/createApplication.ts
\* uuidv4() is modelled as a free choice of the id; the PutCommand carries
\* ConditionExpression 'attribute_not_exists(PK)'
\* the userId property a request body may carry besides the schema's fields
BodyUserIds == {NoBody, "u1"}

\* faulty variant: the PutCommand carries no condition
CreateEntry_Overwrites(user, bodyValid, bodyUserId, notes, uuid, now) ==
  LET req == [IdleInv EXCEPT !.handler = "createApplication", !.user = user,
                             !.body = bodyUserId]
      application == [applicationId |-> uuid, userId |-> user.userId,
                      status |-> DRAFT, borrowerInfo |-> SomeBorrowerInfo,
                      propertyInfo |-> SomePropertyInfo, createdAt |-> now, updatedAt |-> now,
                      notes |-> notes]
      built == [req EXCEPT !.applicationId = uuid, !.notes = notes, !.now = now,
                           !.application = application]
  IN  IF user = NoUser
        THEN Finish(req, error(<<"Unauthorized">>, 401))
      ELSE IF ~bodyValid
        THEN Finish(req, error(<<"Validation failed">>, 400))
      ELSE Finish(built, success(application, 201))

CreateEntry(user, bodyValid, bodyUserId, notes, uuid, now) ==
  LET req == [IdleInv EXCEPT !.handler = "createApplication", !.user = user,
                             !.body = bodyUserId]
      application == [applicationId |-> uuid, userId |-> user.userId,
                      status |-> DRAFT, borrowerInfo |-> SomeBorrowerInfo,
                      propertyInfo |-> SomePropertyInfo, createdAt |-> now, updatedAt |-> now,
                      notes |-> notes]
      built == [req EXCEPT !.applicationId = uuid, !.notes = notes, !.now = now,
                           !.application = application]
  IN  IF user = NoUser
        THEN Finish(req, error(<<"Unauthorized">>, 401))
      ELSE IF ~bodyValid
        THEN Finish(req, error(<<"Validation failed">>, 400))
      ELSE IF store[uuid] # NoItem
        THEN Finish(built, InternalServerError)
      ELSE Finish(built, success(application, 201))

createApplication(app) ==
  [applicationId |-> app.applicationId, userId |-> app.userId, status |-> app.status,
   borrowerInfo |-> app.borrowerInfo, propertyInfo |-> app.propertyInfo,
   createdAt |-> app.createdAt, updatedAt |-> app.updatedAt, notes |-> app.notes,
   PK |-> buildPK(app.applicationId), SK |-> "METADATA",
   GSI1PK |-> buildUserGSI1PK(app.userId), GSI2PK |-> app.status]

CreateApplicationRequest(r) ==
  /\ CanStart(r)
  /\ \E user \in AuthenticatedUser \cup {NoUser}, bodyValid \in BOOLEAN,
        bodyUserId \in BodyUserIds,
        notes \in NotesInputs, uuid \in Apps, now \in clock..MaxClock :
       LET I == CreateEntry(user, bodyValid, bodyUserId, notes, uuid, now)
       IN  /\ Now(now)
           /\ Enter(r, I)
           /\ store' = IF I.response.statusCode = 201
                         THEN [store EXCEPT ![uuid] = createApplication(I.application)]
                         ELSE store
  /\ UNCHANGED <<history, bus, commits, processor, call, queue, web>>

\* --------------------------------------------------------------------- spec
Next ==
  \/ \E r \in Reqs : Return(r)
  \/ \E r \in Reqs : UpdateStatusRequest(r)
  \/ \E r \in Reqs : WebhookRequest(r)
  \/ \E r \in Reqs : CreateApplicationRequest(r)
  \/ \E r \in Reqs : UpdateItem(r)
  \/ \E r \in Reqs : PutHistory(r)
  \/ \E r \in Reqs : PublishStatusChange(r)

Spec == Init /\ [][Next]_vars

\* ------------------------------------------ handlers/applicationProcessor.ts
\* The processor is fed by the queue behind the bus: it runs against whatever
\* the table holds when a batch arrives.  ProcSpec starts it on every batch of
\* up to MaxBatch records over every table of ProcStores.
MaxBatch == 2

\* record bodies: text that JSON.parse rejects, JSON without a detail, or
\* {detail: <StatusChangeEvent>}
NoDetail == [null |-> TRUE]
RecordBodies ==
  {[json |-> FALSE, detail |-> NoDetail], [json |-> TRUE, detail |-> NoDetail]}
    \cup {[json |-> TRUE, detail |-> StatusChangeEvent(a, DRAFT, s, "u1", 1)] :
            a \in Apps, s \in ApplicationStatus}

Batches ==
  UNION {[1..n -> RecordBodies] : n \in 1..MaxBatch}

SQSRecords(bodies) ==
  [k \in DOMAIN bodies |-> [messageId |-> k, body |-> bodies[k]]]

\* the tables the processor may find: no record, or a record with any of
\* these borrowerInfo / propertyInfo values
BorrowerInfos ==
  [firstName : {"", "Ann"}, lastName : {"", "Lee"}, email : {"", "ann@example.com"},
   annualIncome : {-1, 0, 1}]
PropertyInfos == [loanAmount : {0, 1}, downPaymentPercentage : {-1, 0, 100, 101}]

ProcStores ==
  {[a \in Apps |-> NoItem]}
    \cup {[a \in Apps |->
             [applicationId |-> a, userId |-> "u1", status |-> SUBMITTED,
              borrowerInfo |-> b, propertyInfo |-> p,
              createdAt |-> 0, updatedAt |-> 0, notes |-> NoNotes,
              PK |-> buildPK(a), SK |-> "METADATA",
              GSI1PK |-> buildUserGSI1PK("u1"), GSI2PK |-> SUBMITTED]] :
            b \in BorrowerInfos, p \in PropertyInfos}

\* faulty variant: an income of zero passes
performPreValidation_ZeroIncomePasses(application) ==
  LET checks ==
        [incomePositive |-> application.borrowerInfo.annualIncome >= 0,
         loanAmountPositive |-> application.propertyInfo.loanAmount > 0,
         downPaymentValid |->
           /\ application.propertyInfo.downPaymentPercentage >= 0
           /\ application.propertyInfo.downPaymentPercentage <= 100,
         borrowerInfoComplete |->
           /\ Len(application.borrowerInfo.firstName) > 0
           /\ Len(application.borrowerInfo.lastName) > 0
           /\ Len(application.borrowerInfo.email) > 0]
      passed == \A k \in DOMAIN checks : checks[k]
  IN  [passed |-> passed, checks |-> checks]

performPreValidation(application) ==
  LET checks ==
        [incomePositive |-> application.borrowerInfo.annualIncome > 0,
         loanAmountPositive |-> application.propertyInfo.loanAmount > 0,
         downPaymentValid |->
           /\ application.propertyInfo.downPaymentPercentage >= 0
           /\ application.propertyInfo.downPaymentPercentage <= 100,
         borrowerInfoComplete |->
           /\ Len(application.borrowerInfo.firstName) > 0
           /\ Len(application.borrowerInfo.lastName) > 0
           /\ Len(application.borrowerInfo.email) > 0]
      passed == \A k \in DOMAIN checks : checks[k]
  IN  [passed |-> passed, checks |-> checks]

\* Math.floor(Math.random() * (850 - 600 + 1)) + 600: any score of 600..850;
\* the values on both sides of each rating threshold stand for it
Scores == {600, 649, 650, 699, 700, 749, 750, 850}

performCreditCheck(score) ==
  [score |-> score,
   rating |-> IF score >= 750 THEN "excellent"
              ELSE IF score >= 700 THEN "good"
              ELSE IF score >= 650 THEN "fair"
              ELSE "poor"]

\* faulty variant: DENIED falls into the credit check
Dispatch_DeniedRunsCreditCheck(event, application, score) ==
  CASE event.newStatus = SUBMITTED ->
         [step |-> "Pre-validation completed", result |-> performPreValidation(application)]
    [] event.newStatus \in {UNDER_REVIEW, DENIED} ->
         [step |-> "Credit check completed", result |-> performCreditCheck(score)]
    [] event.newStatus = APPROVED ->
         [step |-> "Application approved - ready for closing", result |-> NoItem]
    [] OTHER ->
         [step |-> "No processing required for status", result |-> NoItem]

\* what the switch on event.newStatus runs and logs
Dispatch(event, application, score) ==
  CASE event.newStatus = SUBMITTED ->
         [step |-> "Pre-validation completed", result |-> performPreValidation(application)]
    [] event.newStatus = UNDER_REVIEW ->
         [step |-> "Credit check completed", result |-> performCreditCheck(score)]
    [] event.newStatus = APPROVED ->
         [step |-> "Application approved - ready for closing", result |-> NoItem]
    [] OTHER ->
         [step |-> "No processing required for status", result |-> NoItem]

\* faulty variant: a missing application is logged and skipped
processRecord_MissingApplicationSkipped(record, score) ==
  IF ~record.body.json
    THEN [error |-> <<"SyntaxError">>, newStatus |-> NoStatus, step |-> "none",
          result |-> NoItem]
  ELSE IF record.body.detail = NoDetail
    THEN [error |-> <<"TypeError">>, newStatus |-> NoStatus, step |-> "none",
          result |-> NoItem]
  ELSE LET event == record.body.detail
           application == getApplication(event.applicationId)
       IN  IF application = NoItem
             THEN [error |-> <<>>, newStatus |-> event.newStatus, step |-> "none",
                   result |-> NoItem]
             ELSE LET ran == Dispatch(event, application, score)
                  IN  [error |-> <<>>, newStatus |-> event.newStatus,
                       step |-> ran.step, result |-> ran.result]

\* processRecord: the error it throws (<<>> when it returns) and what it ran
processRecord(record, score) ==
  IF ~record.body.json
    THEN [error |-> <<"SyntaxError">>, newStatus |-> NoStatus, step |-> "none",
          result |-> NoItem]
  ELSE IF record.body.detail = NoDetail
    THEN [error |-> <<"TypeError">>, newStatus |-> NoStatus, step |-> "none",
          result |-> NoItem]
  ELSE LET event == record.body.detail
           application == getApplication(event.applicationId)
       IN  IF application = NoItem
             THEN [error |-> <<"Application", event.applicationId, "not found">>,
                   newStatus |-> event.newStatus, step |-> "none", result |-> NoItem]
             ELSE LET ran == Dispatch(event, application, score)
                  IN  [error |-> <<>>, newStatus |-> event.newStatus,
                       step |-> ran.step, result |-> ran.result]

\* the handler's loop body: one record is attempted, its error is collected
ProcessRecord ==
  /\ processor # NoBatch
  /\ processor.outcome = "running"
  /\ processor.i <= Len(processor.records)
  /\ \E score \in Scores :
       LET record == processor.records[processor.i]
           done == processRecord(record, score)
       IN  processor' =
             [processor EXCEPT
                !.i = @ + 1,
                !.errors = IF done.error # <<>> THEN Append(@, done.error) ELSE @,
                !.log = Append(@, [messageId |-> record.messageId,
                                   threw |-> done.error # <<>>,
                                   newStatus |-> done.newStatus,
                                   step |-> done.step,
                                   result |-> done.result])]
  /\ UNCHANGED <<store, history, bus, clock, inv, obs, commits, writers, call, queue, web>>

\* faulty variant: the collected errors are dropped and the batch completes
CompleteBatch_DropsErrors ==
  /\ processor # NoBatch
  /\ processor.outcome = "running"
  /\ processor.i > Len(processor.records)
  /\ processor' = [processor EXCEPT !.outcome = "completed"]
  /\ UNCHANGED <<store, history, bus, clock, inv, obs, commits, writers, call, queue, web>>

\* after the loop: the batch fails when errors were collected
CompleteBatch ==
  /\ processor # NoBatch
  /\ processor.outcome = "running"
  /\ processor.i > Len(processor.records)
  /\ processor' =
       [processor EXCEPT
          !.outcome = IF Len(processor.errors) > 0 THEN "thrown" ELSE "completed"]
  /\ UNCHANGED <<store, history, bus, clock, inv, obs, commits, writers, call, queue, web>>

ProcInit ==
  /\ store \in ProcStores
  /\ \E bodies \in Batches :
       processor = [records |-> SQSRecords(bodies), i |-> 1, errors |-> <<>>,
                    log |-> <<>>, outcome |-> "running"]
  /\ history = {}
  /\ bus = <<>>
  /\ clock = 1
  /\ inv = [r \in Reqs |-> IdleInv]
  /\ obs = [r \in Reqs |-> IdleObs]
  /\ commits = <<>>
  /\ writers = 0
  /\ call = NoCall
  /\ queue = NoQueue
  /\ web = NoPage

ProcNext ==
  \/ ProcessRecord
  \/ CompleteBatch

ProcSpec == ProcInit /\ [][ProcNext]_vars

\* ------------------------------------------------- the processing queue
\* EventBridge routes every StatusChangeEvent to the SQS queue; Lambda polls
\* the queue, hands the handler a batch, deletes the batch when the handler
\* returns and leaves it on the queue when the handler throws.  SQS moves a
\* message to the dead-letter queue instead of delivering it once it has been
\* received maxReceiveCount times.
maxReceiveCount == 3
MaxMessages == 2    \* messages placed on the queue

Msgs == 1..MaxMessages

\* bodies on the queue: text that JSON.parse rejects, or the event of a
\* transition to SUBMITTED or to UNDER_REVIEW
QueueBodies ==
  {[json |-> FALSE, detail |-> NoDetail]}
    \cup {[json |-> TRUE, detail |-> StatusChangeEvent(a, DRAFT, s, "u1", 1)] :
            a \in Apps, s \in {SUBMITTED, UNDER_REVIEW}}

\* the tables the queue's consumer may find: no record, or a complete one
QueueStores ==
  {[a \in Apps |-> NoItem],
   [a \in Apps |->
      [applicationId |-> a, userId |-> "u1", status |-> SUBMITTED,
       borrowerInfo |-> SomeBorrowerInfo, propertyInfo |-> SomePropertyInfo,
       createdAt |-> 0, updatedAt |-> 0, notes |-> NoNotes,
       PK |-> buildPK(a), SK |-> "METADATA",
       GSI1PK |-> buildUserGSI1PK("u1"), GSI2PK |-> SUBMITTED]]}

\* the messages of a batch in the order of their ids, as event.Records
BatchRecords(B) ==
  LET ids == CHOOSE f \in [1..Cardinality(B) -> B] :
               \A i, j \in 1..Cardinality(B) : i < j => f[i] < f[j]
  IN  [k \in 1..Cardinality(B) |-> [messageId |-> ids[k], body |-> queue[ids[k]].body]]

\* Lambda's poller receives up to MaxBatch visible messages and invokes the
\* handler with them
Receive ==
  /\ queue # NoQueue
  /\ processor = NoBatch
  /\ \E B \in SUBSET Msgs :
       /\ B # {}
       /\ Cardinality(B) <= MaxBatch
       /\ \A m \in B : queue[m].place = "visible" /\ queue[m].receiveCount < maxReceiveCount
       /\ queue' = [m \in Msgs |->
                      IF m \in B
                        THEN [queue[m] EXCEPT !.place = "inflight", !.receiveCount = @ + 1]
                        ELSE queue[m]]
       /\ processor' = [records |-> BatchRecords(B), i |-> 1, errors |-> <<>>,
                        log |-> <<>>, outcome |-> "running"]
  /\ UNCHANGED <<store, history, bus, clock, inv, obs, commits, writers, call, web>>

\* redrive_policy: a message that has been received maxReceiveCount times
\* goes to the dead-letter queue
Redrive ==
  /\ queue # NoQueue
  /\ \E m \in Msgs :
       /\ queue[m].place = "visible"
       /\ queue[m].receiveCount >= maxReceiveCount
       /\ queue' = [queue EXCEPT ![m].place = "dlq"]
  /\ UNCHANGED <<store, history, bus, clock, inv, obs, commits, writers, processor, call, web>>

\* the end of the invocation: the batch is deleted when the handler returned
\* and becomes visible again when it threw
Settle ==
  /\ queue # NoQueue
  /\ processor # NoBatch
  /\ processor.outcome # "running"
  /\ queue' = [m \in Msgs |->
                 IF queue[m].place = "inflight"
                   THEN [queue[m] EXCEPT
                           !.place = IF processor.outcome = "completed"
                                       THEN "deleted" ELSE "visible"]
                   ELSE queue[m]]
  /\ processor' = NoBatch
  /\ UNCHANGED <<store, history, bus, clock, inv, obs, commits, writers, call, web>>

QueueInit ==
  /\ store \in QueueStores
  /\ \E bodies \in [Msgs -> QueueBodies] :
       queue = [m \in Msgs |-> [body |-> bodies[m], receiveCount |-> 0, place |-> "visible"]]
  /\ processor = NoBatch
  /\ history = {}
  /\ bus = <<>>
  /\ clock = 1
  /\ inv = [r \in Reqs |-> IdleInv]
  /\ obs = [r \in Reqs |-> IdleObs]
  /\ commits = <<>>
  /\ writers = 0
  /\ call = NoCall
  /\ web = NoPage

QueueNext ==
  \/ Receive
  \/ ProcessRecord
  \/ CompleteBatch
  \/ Settle
  \/ Redrive

\* fair delivery: the poller, the handler and the redrive keep running
QueueSpec == QueueInit /\ [][QueueNext]_vars /\ WF_vars(QueueNext)

\* --------------------------------------------- handlers/listApplications.ts
\* The table of a listing holds the applications of ListApps, each absent or
\* owned by either user in any status; other invocations change statuses
\* while the listing's queries are in flight.
ListApps == {"a1", "a2"}

NoFilter == "NO_FILTER"
StatusFilters == {NoFilter, "", DRAFT, SUBMITTED, "INVALID_STATUS"}

IdleList ==
  [handler |-> "none", pc |-> "idle", user |-> NoUser, statusFilter |-> NoFilter,
   pending |-> {}, items |-> {}, response |-> NoResponse]

\* what the table may hold under one id
ListedItems(a) ==
  {NoItem} \cup
    {createApplication([applicationId |-> a, userId |-> u, status |-> s,
                        borrowerInfo |-> SomeBorrowerInfo,
                        propertyInfo |-> SomePropertyInfo,
                        createdAt |-> 0, updatedAt |-> 0, notes |-> NoNotes]) :
       u \in Users, s \in {DRAFT, SUBMITTED, APPROVED}}

ListStores == {t \in [ListApps -> UNION {ListedItems(a) : a \in ListApps}] :
                 \A a \in ListApps : t[a] \in ListedItems(a)}

\* the METADATA items of the table
Items == {store[a] : a \in DOMAIN store} \ {NoItem}

\* Query on GSI1 with KeyConditionExpression 'GSI1PK = :pk'
listApplicationsByUser(userId) ==
  {mapRecordToApplication(item) : item \in {i \in Items : i.GSI1PK = buildUserGSI1PK(userId)}}

\* Query on statusIndex with KeyConditionExpression '#status = :status'
listApplicationsByStatus(status) ==
  {mapRecordToApplication(item) : item \in {i \in Items : i.status = status}}

\* faulty variant: an elevated caller without a filter fetches DRAFT as well
statusesToFetch_All == ApplicationStatus

statusesToFetch ==
  {SUBMITTED, UNDER_REVIEW, DOCUMENTS_REQUESTED, APPROVED, DENIED, WITHDRAWN}

\* the handler up to its first query
ListEntry(user, statusFilter) ==
  LET req == [IdleList EXCEPT !.handler = "listApplications", !.user = user,
                              !.statusFilter = statusFilter]
  IN  IF user = NoUser
        THEN Finish(req, error(<<"Unauthorized">>, 401))
      ELSE IF hasElevatedRole(user) /\ statusFilter # NoFilter /\ statusFilter # ""
        THEN IF statusFilter \notin ApplicationStatus
               THEN Finish(req, error(<<"Invalid status filter">>, 400))
               ELSE [req EXCEPT !.pc = "byStatus", !.pending = {statusFilter}]
      ELSE IF hasElevatedRole(user)
        THEN [req EXCEPT !.pc = "byStatus", !.pending = statusesToFetch]
      ELSE [req EXCEPT !.pc = "byUser"]

ListApplicationsRequest(r) ==
  /\ inv[r].pc = "idle"
  /\ \E user \in AuthenticatedUser \cup {NoUser}, statusFilter \in StatusFilters :
       inv' = [inv EXCEPT ![r] = ListEntry(user, statusFilter)]
  /\ UNCHANGED <<store, history, bus, clock, obs, commits, writers, processor, call, queue, web>>

\* one of the status queries completes (Promise.all: in any order); a query
\* that fails rejects the whole listing; the last one builds the response
QueryByStatus(r) ==
  /\ inv[r].pc = "byStatus"
  /\ \E status \in inv[r].pending, ok \in BOOLEAN :
       LET I == inv[r]
           items == I.items \cup listApplicationsByStatus(status)
           pending == I.pending \ {status}
       IN  inv' = [inv EXCEPT ![r] =
                     IF ~ok THEN Finish(I, InternalServerError)
                     ELSE IF pending = {}
                       THEN Finish([I EXCEPT !.items = items, !.pending = pending],
                                   success([items |-> items], 200))
                     ELSE [I EXCEPT !.items = items, !.pending = pending]]
  /\ UNCHANGED <<store, history, bus, clock, obs, commits, writers, processor, call, queue, web>>

QueryByUser(r) ==
  /\ inv[r].pc = "byUser"
  /\ \E ok \in BOOLEAN :
       LET I == inv[r]
           items == listApplicationsByUser(I.user.userId)
       IN  inv' = [inv EXCEPT ![r] =
                     IF ~ok THEN Finish(I, InternalServerError)
                     ELSE Finish([I EXCEPT !.items = items],
                                 success([items |-> items], 200))]
  /\ UNCHANGED <<store, history, bus, clock, obs, commits, writers, processor, call, queue, web>>

\* another invocation commits a status change while the listing runs
StatusChanged ==
  /\ \E r \in Reqs : inv[r].pc \in {"byStatus", "byUser"}
  /\ \E a \in ListApps, newStatus \in ApplicationStatus :
       /\ store[a] # NoItem
       /\ validateStatusTransition(store[a].status, newStatus)
       /\ store' = [store EXCEPT ![a] = ApplyUpdate(store[a], newStatus, 0, NoNotes)]
  /\ UNCHANGED <<history, bus, clock, inv, obs, commits, writers, processor, call, queue, web>>

ListInit ==
  /\ store \in ListStores
  /\ inv = [r \in Reqs |-> IdleList]
  /\ obs = [r \in Reqs |-> IdleObs]
  /\ history = {}
  /\ bus = <<>>
  /\ clock = 1
  /\ commits = <<>>
  /\ writers = 0
  /\ processor = NoBatch
  /\ call = NoCall
  /\ queue = NoQueue
  /\ web = NoPage

ListNext ==
  \/ ListApplicationsRequest(1)
  \/ QueryByStatus(1)
  \/ QueryByUser(1)
  \/ StatusChanged

ListSpec == ListInit /\ [][ListNext]_vars

\* ------------------------------------------ shared package: status machine
VALID_STATUS_TRANSITIONS ==
  [s \in ApplicationStatus |->
     CASE s = DRAFT -> <<SUBMITTED, WITHDRAWN>>
       [] s = SUBMITTED -> <<UNDER_REVIEW, WITHDRAWN>>
       [] s = UNDER_REVIEW -> <<DOCUMENTS_REQUESTED, APPROVED, DENIED>>
       [] s = DOCUMENTS_REQUESTED -> <<SUBMITTED, WITHDRAWN>>
       [] s = APPROVED -> <<WITHDRAWN>>
       [] s = DENIED -> <<>>
       [] s = WITHDRAWN -> <<>>]

isValidStatusTransition(currentStatus, newStatus) ==
  includes(VALID_STATUS_TRANSITIONS[currentStatus], newStatus)

\* VALID_STATUS_TRANSITIONS[currentStatus] is undefined for a key the object
\* does not have, and `.includes` on undefined throws a TypeError
isValidStatusTransitionThrows(currentStatus, newStatus) ==
  currentStatus \notin DOMAIN VALID_STATUS_TRANSITIONS

\* ------------------------------------------------------- auth.ts: strings
\* a string is the sequence of its characters
Str_admin == <<"a", "d", "m", "i", "n">>
Str_loanofficer == <<"l", "o", "a", "n", "o", "f", "f", "i", "c", "e", "r">>
Str_loan_officer == <<"l", "o", "a", "n", "_", "o", "f", "f", "i", "c", "e", "r">>
Group_Admins == <<"A", "d", "m", "i", "n", "s">>
Group_LoanOfficers == <<"L", "o", "a", "n", "O", "f", "f", "i", "c", "e", "r", "s">>
Group_borrowers == <<"b", "o", "r", "r", "o", "w", "e", "r", "s">>
Group_nonadmin == <<"n", "o", "n", "a", "d", "m", "i", "n">>
Comma == <<",">>

\* the search strings of extractUser
AdminSearch == Str_admin
LoanOfficerSearches == {Str_loanofficer, Str_loan_officer}

LowerChar(c) ==
  CASE c = "A" -> "a"
    [] c = "L" -> "l"
    [] c = "O" -> "o"
    [] OTHER -> c

\* String.prototype.toLowerCase
toLowerCase(str) == [i \in 1..Len(str) |-> LowerChar(str[i])]

\* String.prototype.includes: the search string occurs at some position
stringIncludes(str, search) ==
  \E i \in 0..(Len(str) - Len(search)) : SubSeq(str, i + 1, i + Len(search)) = search

\* Array.prototype.join
RECURSIVE join(_, _)
join(arr, sep) ==
  IF Len(arr) = 0 THEN <<>>
  ELSE IF Len(arr) = 1 THEN arr[1]
  ELSE arr[1] \o sep \o join(Tail(arr), sep)

\* ------------------------------------------------ auth.ts: the request
NoClaims == [null |-> TRUE]
NoHeader == [null |-> TRUE]
NoSub == "NO_SUB"
NoEmail == "NO_EMAIL"
NoValue == [null |-> TRUE]

MaxGroups == 2      \* groups a user belongs to

\* names of Cognito groups
GroupNames ==
  {Str_admin, Group_Admins, Str_loan_officer, Group_LoanOfficers, Group_borrowers,
   Group_nonadmin}

GroupArrays == UNION {[1..n -> GroupNames] : n \in 0..MaxGroups}

\* the cognito:groups claim: absent, an array of names, or one string
CognitoGroups ==
  {[kind |-> "undefined", value |-> <<>>]}
    \cup {[kind |-> "array", value |-> g] : g \in GroupArrays}
    \cup {[kind |-> "string", value |-> join(g, Comma)] : g \in GroupArrays}

Claims == [sub : {NoSub, "", "u1"}, email : {NoEmail, "ann@example.com"},
           groups : CognitoGroups]

\* payloads of a mock token: unparsable, or the claims of a borrower or an admin
MockPayloads ==
  {NoClaims}
    \cup [sub : {NoSub, "u1"}, email : {"ann@example.com"},
          groups : {[kind |-> "undefined", value |-> <<>>],
                    [kind |-> "array", value |-> <<Str_admin>>]}]

\* the Authorization header: whether the token is of the form
\* mock.<payload>.local, and what its payload parses to
Headers == {NoHeader} \cup [mock : BOOLEAN, payload : MockPayloads]

APIGatewayProxyEvents == [claims : Claims \cup {NoClaims}, authorization : Headers]

parseMockToken(authHeader) ==
  IF ~authHeader.mock THEN NoClaims ELSE authHeader.payload

\* the role that extractUser reads out of the groups string
roleOf(groupsStr) ==
  IF stringIncludes(toLowerCase(groupsStr), AdminSearch) THEN "admin"
  ELSE IF \E s \in LoanOfficerSearches : stringIncludes(toLowerCase(groupsStr), s)
    THEN "loan_officer"
  ELSE "borrower"

\* faulty variant: the mock token is read in every environment
extractUser_MockTokenAnywhere(event, isLocalDev) ==
  LET authorizerClaims == event.claims
      authHeader == event.authorization
      claims == IF authorizerClaims = NoClaims /\ authHeader # NoHeader
                  THEN parseMockToken(authHeader)
                  ELSE authorizerClaims
  IN  IF claims = NoClaims
        THEN NoUser
        ELSE LET userId == claims.sub
                 email == IF claims.email = NoEmail THEN "" ELSE claims.email
                 cognitoGroups == claims.groups
                 groupsStr == IF cognitoGroups.kind = "array"
                                THEN join(cognitoGroups.value, Comma)
                              ELSE IF cognitoGroups.kind = "string"
                                THEN cognitoGroups.value
                              ELSE <<>>
                 role == roleOf(groupsStr)
             IN  IF userId = NoSub \/ userId = ""
                   THEN NoUser
                   ELSE [userId |-> userId, email |-> email, role |-> role]

extractUser(event, isLocalDev) ==
  LET authorizerClaims == event.claims
      authHeader == event.authorization
      claims == IF authorizerClaims = NoClaims /\ isLocalDev /\ authHeader # NoHeader
                  THEN parseMockToken(authHeader)
                  ELSE authorizerClaims
  IN  IF claims = NoClaims
        THEN NoUser
        ELSE LET userId == claims.sub
                 email == IF claims.email = NoEmail THEN "" ELSE claims.email
                 cognitoGroups == claims.groups
                 groupsStr == IF cognitoGroups.kind = "array"
                                THEN join(cognitoGroups.value, Comma)
                              ELSE IF cognitoGroups.kind = "string"
                                THEN cognitoGroups.value
                              ELSE <<>>
                 role == roleOf(groupsStr)
             IN  IF userId = NoSub \/ userId = ""
                   THEN NoUser
                   ELSE [userId |-> userId, email |-> email, role |-> role]

\* handlers/applications/getApplication.ts, from its entry to its response
GetApplicationEntry(user, applicationId) ==
  LET req == [IdleInv EXCEPT !.handler = "getApplication", !.user = user,
                             !.applicationId = applicationId]
      application == getApplication(applicationId)
      loaded == [req EXCEPT !.application = application]
  IN  IF user = NoUser
        THEN Finish(req, error(<<"Unauthorized">>, 401))
      ELSE IF applicationId = NoId
        THEN Finish(req, error(<<"applicationId is required">>, 400))
      ELSE IF application = NoItem
        THEN Finish(loaded, error(<<"Application not found">>, 404))
      ELSE IF ~(application.userId = user.userId \/ hasElevatedRole(user))
        THEN Finish(loaded, error(<<"Access denied">>, 403))
      ELSE Finish(loaded, success(application, 200))

\* the handlers that start with extractUser(event)
ProtectedHandlers ==
  {"getApplication", "listApplications", "createApplication", "updateStatus"}

\* a handler on a well-formed request of the event's caller, up to its
\* response or to the first call it leaves pending: where it stands, what it
\* answered, and what it has loaded or built
HandlerEntry(handler, event, isLocalDev) ==
  LET user == extractUser(event, isLocalDev)
      I == IF handler = "getApplication"
             THEN GetApplicationEntry(user, "a1")
           ELSE IF handler = "createApplication"
             THEN CreateEntry(user, TRUE, NoBody, NoNotes, "a1", clock)
           ELSE UpdateStatusEntry(user, "a1", SUBMITTED, NoNotes, clock)
      L == ListEntry(user, NoFilter)
  IN  IF handler = "listApplications"
        THEN [pc |-> L.pc, response |-> L.response, application |-> NoItem]
        ELSE [pc |-> I.pc, response |-> I.response, application |-> I.application]

\* ------------------------------------------- calls of the pure functions
\* a status outside the seven, as another writer of the table may store it
UnknownStatus == "LEGACY_STATUS"
StatusValues == ApplicationStatus \cup {UnknownStatus}

Call(fn, args) ==
  [fn |-> fn, args |-> args, done |-> FALSE, threw |-> FALSE, value |-> NoValue]

Returns(value) == [call EXCEPT !.done = TRUE, !.value = value]
Throws == [call EXCEPT !.done = TRUE, !.threw = TRUE]

FunInit ==
  /\ \/ \E currentStatus \in StatusValues, newStatus \in StatusValues,
           fn \in {"validateStatusTransition", "isValidStatusTransition"} :
          call = Call(fn, [currentStatus |-> currentStatus, newStatus |-> newStatus])
     \/ \E event \in APIGatewayProxyEvents, isLocalDev \in BOOLEAN :
          call = Call("extractUser", [event |-> event, isLocalDev |-> isLocalDev])
     \/ \E role \in UserRoles :
          call = Call("hasElevatedRole",
                      [user |-> [userId |-> "u1", email |-> "", role |-> role]])
     \/ \E handler \in ProtectedHandlers, event \in APIGatewayProxyEvents,
           isLocalDev \in BOOLEAN :
          call = Call(handler, [event |-> event, isLocalDev |-> isLocalDev])
  /\ \/ store = [a \in Apps |-> NoItem]
     \/ /\ call.fn \in ProtectedHandlers
        /\ store = [a \in Apps |->
                      [applicationId |-> a, userId |-> "u1", status |-> DRAFT,
                       borrowerInfo |-> SomeBorrowerInfo,
                       propertyInfo |-> SomePropertyInfo,
                       createdAt |-> 0, updatedAt |-> 0, notes |-> NoNotes,
                       PK |-> buildPK(a), SK |-> "METADATA",
                       GSI1PK |-> buildUserGSI1PK("u1"), GSI2PK |-> DRAFT]]
  /\ history = {}
  /\ bus = <<>>
  /\ clock = 1
  /\ inv = [r \in Reqs |-> IdleInv]
  /\ obs = [r \in Reqs |-> IdleObs]
  /\ commits = <<>>
  /\ writers = 0
  /\ processor = NoBatch
  /\ queue = NoQueue
  /\ web = NoPage

CallValidateStatusTransition ==
  /\ call.fn = "validateStatusTransition"
  /\ ~call.done
  /\ call' = IF validateStatusTransitionThrows(call.args.currentStatus, call.args.newStatus)
               THEN Throws
               ELSE Returns(validateStatusTransition(call.args.currentStatus,
                                                     call.args.newStatus))
  /\ UNCHANGED <<store, history, bus, clock, inv, obs, commits, writers, processor, queue, web>>

CallIsValidStatusTransition ==
  /\ call.fn = "isValidStatusTransition"
  /\ ~call.done
  /\ call' = IF isValidStatusTransitionThrows(call.args.currentStatus, call.args.newStatus)
               THEN Throws
               ELSE Returns(isValidStatusTransition(call.args.currentStatus,
                                                    call.args.newStatus))
  /\ UNCHANGED <<store, history, bus, clock, inv, obs, commits, writers, processor, queue, web>>

CallExtractUser ==
  /\ call.fn = "extractUser"
  /\ ~call.done
  /\ call' = Returns(extractUser(call.args.event, call.args.isLocalDev))
  /\ UNCHANGED <<store, history, bus, clock, inv, obs, commits, writers, processor, queue, web>>

CallHasElevatedRole ==
  /\ call.fn = "hasElevatedRole"
  /\ ~call.done
  /\ call' = Returns(hasElevatedRole(call.args.user))
  /\ UNCHANGED <<store, history, bus, clock, inv, obs, commits, writers, processor, queue, web>>

CallHandler ==
  /\ call.fn \in ProtectedHandlers
  /\ ~call.done
  /\ call' = Returns(HandlerEntry(call.fn, call.args.event, call.args.isLocalDev))
  /\ UNCHANGED <<store, history, bus, clock, inv, obs, commits, writers, processor, queue, web>>

FunNext ==
  \/ CallValidateStatusTransition
  \/ CallIsValidStatusTransition
  \/ CallExtractUser
  \/ CallHasElevatedRole
  \/ CallHandler

FunSpec == FunInit /\ [][FunNext]_vars


\* ------------------------------------------------ web: ApplicationPage
\* The page shows application a1 of borrower u1 to its owner or to a member
\* of staff.  The API answers a status change as the updateStatus handler
\* does against the record the page shows; an accepted change is committed.
LOAN_OFFICER_GROUPS == {Str_loan_officer, Str_admin, Group_LoanOfficers, Group_Admins}

\* the viewers: the owner without groups, and staff in one group
PageUsers ==
  {[userId |-> "u1", groups |-> <<>>],
   [userId |-> "u2", groups |-> <<Group_LoanOfficers>>],
   [userId |-> "u2", groups |-> <<Str_admin>>]}

isLoanOfficer(groups) == \E i \in DOMAIN groups : groups[i] \in LOAN_OFFICER_GROUPS

\* the caller the API sees for a viewer (the same token's claims)
ApiUser(user) == [userId |-> user.userId, role |-> roleOf(join(user.groups, Comma))]

\* targetStatus of the buttons of VALID_TRANSITIONS
VALID_TRANSITIONS ==
  [s \in ApplicationStatus |->
     CASE s = DRAFT -> <<SUBMITTED>>
       [] s = SUBMITTED -> <<UNDER_REVIEW, DOCUMENTS_REQUESTED>>
       [] s = UNDER_REVIEW -> <<APPROVED, DENIED, DOCUMENTS_REQUESTED>>
       [] s = DOCUMENTS_REQUESTED -> <<UNDER_REVIEW>>
       [] s = APPROVED -> <<>>
       [] s = DENIED -> <<>>
       [] s = WITHDRAWN -> <<>>]

NoModal == [isOpen |-> FALSE, transition |-> NoStatus]
NoError == <<>>

userIsLoanOfficer == isLoanOfficer(web.user.groups)

availableTransitions == VALID_TRANSITIONS[web.application.status]

canWithdraw ==
  web.application.status \in {DRAFT, SUBMITTED, UNDER_REVIEW, DOCUMENTS_REQUESTED}

\* the buttons that open the confirmation modal
ModalButtons ==
  (IF userIsLoanOfficer
     THEN {availableTransitions[i] : i \in DOMAIN availableTransitions}
     ELSE {})
    \cup (IF ~userIsLoanOfficer /\ web.application.status = DRAFT THEN {SUBMITTED} ELSE {})

IsApplicationPage == web # NoPage /\ web.page = "ApplicationPage"

openActionModal ==
  /\ IsApplicationPage
  /\ ~web.isSubmitting
  /\ ~web.modal.isOpen
  /\ \E targetStatus \in ModalButtons :
       web' = [web EXCEPT !.modal = [isOpen |-> TRUE, transition |-> targetStatus]]
  /\ UNCHANGED <<store, history, bus, clock, inv, obs, commits, writers, processor, call, queue>>

closeActionModal ==
  /\ IsApplicationPage
  /\ ~web.isSubmitting
  /\ web.modal.isOpen
  /\ web' = [web EXCEPT !.modal = NoModal]
  /\ UNCHANGED <<store, history, bus, clock, inv, obs, commits, writers, processor, call, queue>>

\* handleStatusChange up to its await
handleStatusChange(targetStatus) ==
  [web EXCEPT !.isSubmitting = TRUE, !.error = NoError, !.request = targetStatus]

confirmAction ==
  /\ IsApplicationPage
  /\ ~web.isSubmitting
  /\ web.modal.isOpen
  /\ web' = handleStatusChange(web.modal.transition)
  /\ UNCHANGED <<store, history, bus, clock, inv, obs, commits, writers, processor, call, queue>>

handleWithdraw ==
  /\ IsApplicationPage
  /\ ~web.isSubmitting
  /\ ~web.modal.isOpen
  /\ canWithdraw
  /\ web' = handleStatusChange(WITHDRAWN)
  /\ UNCHANGED <<store, history, bus, clock, inv, obs, commits, writers, processor, call, queue>>

\* the API's answer arrives: the rest of handleStatusChange
StatusChangeResponse ==
  /\ IsApplicationPage
  /\ web.request # NoStatus
  /\ LET I == UpdateStatusEntry(ApiUser(web.user), web.application.applicationId,
                                web.request, NoNotes, clock)
         item == ApplyUpdate(store[web.application.applicationId], web.request, clock,
                             NoNotes)
     IN  IF I.pc = "update"
           THEN /\ store' = [store EXCEPT ![web.application.applicationId] = item]
                /\ web' = [web EXCEPT !.application = mapRecordToApplication(item),
                                      !.modal = NoModal, !.isSubmitting = FALSE,
                                      !.request = NoStatus, !.statusCode = 200]
           ELSE /\ web' = [web EXCEPT !.error = I.response.message,
                                      !.isSubmitting = FALSE, !.request = NoStatus,
                                      !.statusCode = I.response.statusCode]
                /\ UNCHANGED store
  /\ UNCHANGED <<history, bus, clock, inv, obs, commits, writers, processor, call, queue>>

\* the page after loadApplication has resolved
ApplicationPageInit ==
  /\ \E s \in ApplicationStatus :
       store = [a \in Apps |->
                  createApplication([applicationId |-> a, userId |-> "u1", status |-> s,
                                     borrowerInfo |-> SomeBorrowerInfo,
                                     propertyInfo |-> SomePropertyInfo,
                                     createdAt |-> 0, updatedAt |-> 0, notes |-> NoNotes])]
  /\ \E user \in PageUsers :
       web = [page |-> "ApplicationPage", user |-> user,
              application |-> getApplication("a1"), isLoading |-> FALSE,
              error |-> NoError, isSubmitting |-> FALSE, modal |-> NoModal,
              request |-> NoStatus, statusCode |-> 0]

\* ---------------------------------------------- web: NewApplicationPage
\* Form values are kept by what the schemas and parseCurrencyToNumber read:
\* whether the fields checked by length or pattern pass, and each amount as
\* typed.
MaxCreates == 2     \* create requests one visit of the wizard sends

Amounts == {"", "abc", "$1"}

PersonalInfoData == [filled : BOOLEAN, annualIncome : Amounts]
PropertyInfoData == [filled : BOOLEAN, loanAmount : {"", "$1"},
                     downPaymentPercentage : {2, 20}]

INITIAL_FORM_DATA ==
  [personal |-> [filled |-> FALSE, annualIncome |-> ""],
   property |-> [filled |-> FALSE, loanAmount |-> "", downPaymentPercentage |-> 20],
   confirmAccurate |-> FALSE]

\* z.string().min(1) on the amounts, the other rules on the other fields
PersonalInfoSchema(personal) == personal.filled /\ personal.annualIncome # ""

PropertyInfoSchema(property) ==
  /\ property.filled
  /\ property.loanAmount # ""
  /\ property.downPaymentPercentage >= 3
  /\ property.downPaymentPercentage <= 50

\* value.replace(/[^0-9.]/g, '') and parseFloat(cleaned) || 0
parseCurrencyToNumber(value) == IF value = "$1" THEN 1 ELSE 0

NoEvent == [name |-> "none", step |-> 0]
NoToast == "NO_TOAST"

IsNewApplicationPage == web # NoPage /\ web.page = "NewApplicationPage"

\* faulty variant: step 2 is not validated
validateStep_Step2Unchecked(step) ==
  IF step = 1
    THEN IF PersonalInfoSchema(web.formData.personal) THEN {} ELSE {"personal"}
  ELSE IF step = 2
    THEN {}
  ELSE IF step = 3
    THEN IF ~web.formData.confirmAccurate THEN {"confirmAccurate"} ELSE {}
  ELSE {}

\* validateStep: the errors it sets (it returns true when there are none)
validateStep(step) ==
  IF step = 1
    THEN IF PersonalInfoSchema(web.formData.personal) THEN {} ELSE {"personal"}
  ELSE IF step = 2
    THEN IF PropertyInfoSchema(web.formData.property) THEN {} ELSE {"property"}
  ELSE IF step = 3
    THEN IF ~web.formData.confirmAccurate THEN {"confirmAccurate"} ELSE {}
  ELSE {}

\* the inputs of the step on screen
updateFormData ==
  /\ IsNewApplicationPage
  /\ \/ /\ web.currentStep = 1
        /\ \E personal \in PersonalInfoData \ {web.formData.personal} :
             web' = [web EXCEPT !.formData.personal = personal,
                                !.event = [name |-> "updateFormData", step |-> 0]]
     \/ /\ web.currentStep = 2
        /\ \E property \in PropertyInfoData \ {web.formData.property} :
             web' = [web EXCEPT !.formData.property = property,
                                !.event = [name |-> "updateFormData", step |-> 0]]
     \/ /\ web.currentStep = 3
        /\ web' = [web EXCEPT !.formData.confirmAccurate = ~@,
                              !.event = [name |-> "updateFormData", step |-> 0]]
  /\ UNCHANGED <<store, history, bus, clock, inv, obs, commits, writers, processor, call, queue>>

\* the page after handleNext has run
NextStep(event) ==
  LET newErrors == validateStep(web.currentStep)
  IN  [web EXCEPT !.errors = newErrors,
                  !.currentStep = IF newErrors = {} /\ web.currentStep < 3
                                    THEN @ + 1 ELSE @,
                  !.event = event]

\* the Next button (shown before step 3)
handleNext ==
  /\ IsNewApplicationPage
  /\ web.currentStep < 3
  /\ web' = NextStep([name |-> "handleNext", step |-> 0])
  /\ UNCHANGED <<store, history, bus, clock, inv, obs, commits, writers, processor, call, queue>>

\* the Back button (shown after step 1)
handleBack ==
  /\ IsNewApplicationPage
  /\ web.currentStep > 1
  /\ web' = [web EXCEPT !.currentStep = IF web.currentStep > 1 THEN @ - 1 ELSE @,
                        !.event = [name |-> "handleBack", step |-> 0]]
  /\ UNCHANGED <<store, history, bus, clock, inv, obs, commits, writers, processor, call, queue>>

\* the Stepper's buttons (disabled for the steps after the current one)
handleStepClick ==
  /\ IsNewApplicationPage
  /\ \E step \in 1..3 :
       /\ step <= web.currentStep
       /\ web' = IF step < web.currentStep
                   THEN [web EXCEPT !.currentStep = step,
                                    !.event = [name |-> "handleStepClick", step |-> step]]
                 ELSE IF step = web.currentStep + 1
                   THEN NextStep([name |-> "handleStepClick", step |-> step])
                 ELSE [web EXCEPT !.event = [name |-> "handleStepClick", step |-> step]]
  /\ UNCHANGED <<store, history, bus, clock, inv, obs, commits, writers, processor, call, queue>>

buildSubmissionData ==
  [borrowerInfo |->
     [filled |-> web.formData.personal.filled,
      annualIncome |-> parseCurrencyToNumber(web.formData.personal.annualIncome)],
   propertyInfo |->
     [filled |-> web.formData.property.filled,
      loanAmount |-> parseCurrencyToNumber(web.formData.property.loanAmount),
      downPaymentPercentage |-> web.formData.property.downPaymentPercentage]]

\* createApplicationSchema.safeParse of the API on the submitted data
createApplicationSchema(body) ==
  /\ body.borrowerInfo.filled
  /\ body.borrowerInfo.annualIncome > 0
  /\ body.propertyInfo.filled
  /\ body.propertyInfo.loanAmount > 0
  /\ body.propertyInfo.downPaymentPercentage >= 0
  /\ body.propertyInfo.downPaymentPercentage <= 100

\* Save as Draft (shown on step 3): up to the await
handleSaveAsDraft ==
  /\ IsNewApplicationPage
  /\ web.currentStep = 3
  /\ ~web.isSavingDraft /\ ~web.isSubmitting
  /\ web.sent < MaxCreates
  /\ web' = [web EXCEPT !.isSavingDraft = TRUE,
                        !.request = [body |-> buildSubmissionData, notes |-> "Saved as draft"],
                        !.sent = @ + 1,
                        !.event = [name |-> "handleSaveAsDraft", step |-> 0]]
  /\ UNCHANGED <<store, history, bus, clock, inv, obs, commits, writers, processor, call, queue>>

\* faulty variant: the request is sent without the confirmation being checked
handleSubmit_Unconfirmed ==
  /\ IsNewApplicationPage
  /\ web.currentStep = 3
  /\ ~web.isSavingDraft /\ ~web.isSubmitting
  /\ web.sent < MaxCreates
  /\ web' = [web EXCEPT !.isSubmitting = TRUE,
                        !.request = [body |-> buildSubmissionData, notes |-> NoNotes],
                        !.sent = @ + 1,
                        !.event = [name |-> "handleSubmit", step |-> 0]]
  /\ UNCHANGED <<store, history, bus, clock, inv, obs, commits, writers, processor, call, queue>>

\* Submit Application (shown on step 3): up to the await, or the early return
handleSubmit ==
  /\ IsNewApplicationPage
  /\ web.currentStep = 3
  /\ ~web.isSavingDraft /\ ~web.isSubmitting
  /\ web.sent < MaxCreates
  /\ LET newErrors == validateStep(3)
     IN  web' = IF newErrors # {}
                  THEN [web EXCEPT !.errors = newErrors,
                                   !.event = [name |-> "handleSubmit", step |-> 0]]
                  ELSE [web EXCEPT !.errors = newErrors,
                                   !.isSubmitting = TRUE,
                                   !.request = [body |-> buildSubmissionData,
                                                notes |-> NoNotes],
                                   !.sent = @ + 1,
                                   !.event = [name |-> "handleSubmit", step |-> 0]]
  /\ UNCHANGED <<store, history, bus, clock, inv, obs, commits, writers, processor, call, queue>>

NoRequest == [null |-> TRUE]

\* the API's answer to the create request arrives
CreateResponse ==
  /\ IsNewApplicationPage
  /\ web.request # NoRequest
  /\ \E uuid \in DOMAIN store :
       LET I == CreateEntry(ApiUser(web.user), createApplicationSchema(web.request.body),
                            NoBody, web.request.notes, uuid, clock)
           ok == I.response.statusCode = 201
       IN  /\ store' = IF ok THEN [store EXCEPT ![uuid] = createApplication(I.application)]
                             ELSE store
           /\ web' = [web EXCEPT !.isSubmitting = FALSE, !.isSavingDraft = FALSE,
                                 !.request = NoRequest,
                                 !.created = IF ok THEN @ \cup {uuid} ELSE @,
                                 !.toast = IF ok THEN "success" ELSE "error",
                                 !.event = [name |-> "createApplication", step |-> 0]]
  /\ UNCHANGED <<history, bus, clock, inv, obs, commits, writers, processor, call, queue>>

NewApplicationPageInit ==
  /\ store = [a \in ListApps |-> NoItem]
  /\ web = [page |-> "NewApplicationPage", user |-> [userId |-> "u1", groups |-> <<>>],
            currentStep |-> 1, formData |-> INITIAL_FORM_DATA, errors |-> {},
            isSubmitting |-> FALSE, isSavingDraft |-> FALSE, toast |-> NoToast,
            request |-> NoRequest, sent |-> 0, created |-> {}, event |-> NoEvent]

\* ------------------------------------------------------ web: hooks/useAuth
\* One AuthProvider holds the hook.  Every await is a point where the other
\* calls in flight may run; what runs between two awaits runs alone.
NoAuthUser == [null |-> TRUE]
SomeAuthUser == [userId |-> "u1", email |-> "u1@example.com", groups |-> <<>>]

NoResult == [pending |-> TRUE]
Success(data) == [success |-> TRUE, data |-> data]
Failure == [success |-> FALSE, data |-> NoAuthUser]

IsUseAuth == web # NoPage /\ web.page = "useAuth"

\* services/auth getCurrentUser: what it can resolve with, given whether
\* Cognito holds a session when it reads it
getCurrentUser == IF web.session THEN {Success(SomeAuthUser), Failure} ELSE {Failure}

\* checkSession: getCurrentUser reads the session
CheckSessionRead ==
  /\ IsUseAuth
  /\ web.checkSession.pc = "getCurrentUser"
  /\ \E result \in getCurrentUser :
       web' = [web EXCEPT !.checkSession = [pc |-> "await", result |-> result]]
  /\ UNCHANGED <<store, history, bus, clock, inv, obs, commits, writers, processor, call, queue>>

\* checkSession after the await
checkSession ==
  /\ IsUseAuth
  /\ web.checkSession.pc = "await"
  /\ web' = [web EXCEPT !.user = IF web.checkSession.result.success
                                   THEN web.checkSession.result.data ELSE NoAuthUser,
                        !.isLoading = FALSE,
                        !.checkSession = [pc |-> "done", result |-> NoResult]]
  /\ UNCHANGED <<store, history, bus, clock, inv, obs, commits, writers, processor, call, queue>>

\* signIn up to its first await (LoginPage's handleSubmit with a valid form)
signIn ==
  /\ IsUseAuth
  /\ web.signIn.pc = "idle"
  /\ web.signOut.pc # "authSignOut"
  /\ web' = [web EXCEPT !.isLoading = TRUE,
                        !.signIn = [pc |-> "authSignIn", result |-> NoResult]]
  /\ UNCHANGED <<store, history, bus, clock, inv, obs, commits, writers, processor, call, queue>>

\* authSignIn resolves: refused, or accepted with isSignedIn true or false
AuthSignInResolved ==
  /\ IsUseAuth
  /\ web.signIn.pc = "authSignIn"
  /\ \E accepted \in BOOLEAN, isSignedIn \in BOOLEAN :
       /\ ~accepted => ~isSignedIn
       /\ web' = IF accepted
                   THEN [web EXCEPT !.session = @ \/ isSignedIn,
                                    !.signIn = [pc |-> "getCurrentUser", result |-> NoResult]]
                   ELSE [web EXCEPT !.isLoading = FALSE,
                                    !.signIn = [pc |-> "idle", result |-> NoResult]]
  /\ UNCHANGED <<store, history, bus, clock, inv, obs, commits, writers, processor, call, queue>>

\* signIn: getCurrentUser reads the session
SignInRead ==
  /\ IsUseAuth
  /\ web.signIn.pc = "getCurrentUser"
  /\ \E result \in getCurrentUser :
       web' = [web EXCEPT !.signIn = [pc |-> "await", result |-> result]]
  /\ UNCHANGED <<store, history, bus, clock, inv, obs, commits, writers, processor, call, queue>>

\* signIn after its second await: it resolves with success
SignInResolved ==
  /\ IsUseAuth
  /\ web.signIn.pc = "await"
  /\ web' = [web EXCEPT !.user = IF web.signIn.result.success
                                   THEN web.signIn.result.data ELSE @,
                        !.isLoading = FALSE,
                        !.signedIn = TRUE,
                        !.signIn = [pc |-> "done", result |-> NoResult]]
  /\ UNCHANGED <<store, history, bus, clock, inv, obs, commits, writers, processor, call, queue>>

\* signOut up to its await
signOut ==
  /\ IsUseAuth
  /\ web.signOut.pc = "idle"
  /\ web.signIn.pc \in {"idle", "done"}
  /\ web' = [web EXCEPT !.isLoading = TRUE, !.signOut = [pc |-> "authSignOut"]]
  /\ UNCHANGED <<store, history, bus, clock, inv, obs, commits, writers, processor, call, queue>>

\* authSignOut resolves
AuthSignOutResolved ==
  /\ IsUseAuth
  /\ web.signOut.pc = "authSignOut"
  /\ \E accepted \in BOOLEAN :
       web' = IF accepted
                THEN [web EXCEPT !.session = FALSE, !.user = NoAuthUser,
                                 !.isLoading = FALSE, !.signedIn = FALSE,
                                 !.signIn = [pc |-> "idle", result |-> NoResult],
                                 !.signOut = [pc |-> "idle"]]
                ELSE [web EXCEPT !.isLoading = FALSE, !.signOut = [pc |-> "idle"]]
  /\ UNCHANGED <<store, history, bus, clock, inv, obs, commits, writers, processor, call, queue>>

\* the value the hook returns
isAuthenticated == web.user # NoAuthUser

\* the provider mounts: the effect has started checkSession
UseAuthInit ==
  /\ store = [a \in Apps |-> NoItem]
  /\ \E session \in BOOLEAN :
       web = [page |-> "useAuth", user |-> NoAuthUser, isLoading |-> TRUE,
              session |-> session,
              checkSession |-> [pc |-> "getCurrentUser", result |-> NoResult],
              signIn |-> [pc |-> "idle", result |-> NoResult],
              signOut |-> [pc |-> "idle"],
              signedIn |-> FALSE]

WebInit ==
  /\ \/ ApplicationPageInit
     \/ NewApplicationPageInit
     \/ UseAuthInit
  /\ history = {}
  /\ bus = <<>>
  /\ clock = 1
  /\ inv = [r \in Reqs |-> IdleInv]
  /\ obs = [r \in Reqs |-> IdleObs]
  /\ commits = <<>>
  /\ writers = 0
  /\ processor = NoBatch
  /\ call = NoCall
  /\ queue = NoQueue

WebNext ==
  \/ openActionModal
  \/ closeActionModal
  \/ confirmAction
  \/ handleWithdraw
  \/ StatusChangeResponse
  \/ updateFormData
  \/ handleNext
  \/ handleBack
  \/ handleStepClick
  \/ handleSaveAsDraft
  \/ handleSubmit
  \/ CreateResponse
  \/ CheckSessionRead
  \/ checkSession
  \/ signIn
  \/ AuthSignInResolved
  \/ SignInRead
  \/ SignInResolved
  \/ signOut
  \/ AuthSignOutResolved

WebSpec == WebInit /\ [][WebNext]_vars

\* =================================================================== claims
\* the status transition table of the specification (section 4.1), as pairs
TransitionTable ==
  {<<DRAFT, SUBMITTED>>, <<DRAFT, WITHDRAWN>>,
   <<SUBMITTED, UNDER_REVIEW>>, <<SUBMITTED, DOCUMENTS_REQUESTED>>,
   <<SUBMITTED, WITHDRAWN>>,
   <<UNDER_REVIEW, DOCUMENTS_REQUESTED>>, <<UNDER_REVIEW, APPROVED>>,
   <<UNDER_REVIEW, DENIED>>,
   <<DOCUMENTS_REQUESTED, UNDER_REVIEW>>, <<DOCUMENTS_REQUESTED, WITHDRAWN>>}

Done(r) == inv[r].pc = "done"
IsUpdateStatus(r) == inv[r].handler = "updateStatus"
Quiescent == \A r \in Reqs : inv[r].pc \in {"idle", "done"}

\* C1: every change of an application's stored status goes from a status s
\* to a status t that the transition table lists for s, whichever operation
\* makes it (so a record in APPROVED, DENIED or WITHDRAWN never changes).
C1_StatusChangesFollowTable ==
  [][\A a \in Apps :
       (/\ store[a] # NoItem
        /\ store'[a] # NoItem
        /\ store'[a].status # store[a].status)
       => <<store[a].status, store'[a].status>> \in TransitionTable]_vars

Raced(r) ==
  \E i \in DOMAIN obs[r].since :
    /\ obs[r].since[i].handler = "updateStatus"
    /\ obs[r].since[i].applicationId = inv[r].applicationId
    /\ obs[r].since[i].from = inv[r].previousStatus

\* C3: of two updateStatus requests that read the same status and both pass
\* validation, the one whose write comes second commits nothing and returns
\* a Conflict error (409), distinct from an internal failure.
C3_LoserGetsConflict ==
  \A r \in Reqs :
    (IsUpdateStatus(r) /\ Done(r) /\ obs[r].attempted /\ Raced(r))
    => /\ ~obs[r].committed
       /\ inv[r].response.statusCode = 409
       /\ inv[r].response # InternalServerError

HistoryOf(a) == {h \in history : h.PK = buildPK(a)}
CommitsOf(a) == {i \in DOMAIN commits : commits[i].applicationId = a}

\* C5: every committed transition has produced exactly one history entry
\* with its previous and new status: when no invocation is running, an
\* application has as many history entries as committed transitions.
C5_OneHistoryEntryPerCommit ==
  Quiescent =>
    \A a \in Apps :
      /\ Cardinality(HistoryOf(a)) = Cardinality(CommitsOf(a))
      /\ \A i \in CommitsOf(a) :
           \E h \in HistoryOf(a) :
             h.previousStatus = commits[i].from /\ h.newStatus = commits[i].to

\* C6: status history is append-only: a history entry, once written, is never
\* overwritten, changed or removed by a later operation.
C6_HistoryAppendOnly ==
  [][\A h \in history : h \in history']_vars

\* C7: a StatusChangeEvent is published only after the store has confirmed
\* the conditional write: every event on the bus matches a committed change
\* of that application from previousStatus to newStatus, an invocation
\* publishes only once its own write has committed, and an invocation whose
\* write failed or was never sent publishes nothing.
C7_PublishedOnlyAfterCommit ==
  /\ \A i \in DOMAIN bus :
       \E j \in DOMAIN commits :
         /\ commits[j].applicationId = bus[i].applicationId
         /\ commits[j].from = bus[i].previousStatus
         /\ commits[j].to = bus[i].newStatus
  /\ \A r \in Reqs :
       (inv[r].pc = "publish" \/ obs[r].publishAttempted) => obs[r].committed
  /\ \A r \in Reqs :
       ~obs[r].committed => obs[r].published = {}

\* an updateStatus invocation has committed its write and published its event
C7_Witness ==
  \E r \in Reqs :
    /\ IsUpdateStatus(r) /\ Done(r)
    /\ obs[r].committed
    /\ obs[r].published # {}
    /\ bus # <<>>

\* C8: every committed status transition leads to a publish attempt of the
\* matching event: an invocation that has committed a status write has
\* attempted the publish by the time it ends, on every path that changes
\* status and whether or not the history append succeeded.
C8_CommitLeadsToPublish ==
  \A r \in Reqs :
    (Done(r) /\ obs[r].committed) => obs[r].publishAttempted

\* C9: an updateStatus call that succeeds (it answers 200) returns the
\* application with the new status, after its write committed; when the bus
\* accepted its PutEvents entry it has published exactly one
\* StatusChangeEvent, whose applicationId, previousStatus and newStatus are
\* those of the transition and whose userId is the application's owning
\* user, also when the caller is somebody else.
C9_SuccessPublishesOneEvent ==
  \A r \in Reqs :
    (IsUpdateStatus(r) /\ Done(r) /\ inv[r].response.statusCode = 200)
    => /\ inv[r].response.success
       /\ inv[r].response.data.applicationId = inv[r].applicationId
       /\ inv[r].response.data.status = inv[r].newStatus
       /\ obs[r].committed
       /\ obs[r].statusAtWrite = inv[r].previousStatus
       /\ obs[r].putEvents \in {"accepted", "failed_entry"}
       /\ obs[r].putEvents = "accepted" => Cardinality(obs[r].published) = 1
       /\ \A i \in obs[r].published :
            /\ bus[i].applicationId = inv[r].applicationId
            /\ bus[i].previousStatus = obs[r].statusAtWrite
            /\ bus[i].newStatus = inv[r].newStatus
            /\ bus[i].userId = store[inv[r].applicationId].userId

\* a successful updateStatus call made by a caller who is not the owner
C9_Witness ==
  \E r \in Reqs :
    /\ IsUpdateStatus(r) /\ Done(r)
    /\ inv[r].response.statusCode = 200
    /\ inv[r].user.userId # store[inv[r].applicationId].userId
    /\ obs[r].putEvents = "accepted"
    /\ obs[r].published # {}

\* the application was in APPROVED when updateStatus invocation r, of an
\* authenticated caller with a well-formed body, read it
ReadApproved(r) ==
  /\ IsUpdateStatus(r)
  /\ inv[r].application # NoItem
  /\ inv[r].application.status = APPROVED

IsInvalidTransition(response) ==
  /\ response.statusCode = 400
  /\ response.message # <<>>
  /\ response.message[1] = "Invalid status transition from"

Untouching(r) ==
  /\ ~obs[r].attempted
  /\ ~obs[r].historyPut
  /\ ~obs[r].publishAttempted
  /\ obs[r].published = {}

CallerKnown(r) == DOMAIN inv[r].user = {"userId", "role"}

\* C11: only callers with an elevated role can move an application to
\* APPROVED or DENIED: an updateStatus request of a caller with role
\* borrower who owns the application, for an application read in
\* UNDER_REVIEW and with target APPROVED or DENIED, ends with the Forbidden
\* error without sending a write, a history entry or an event.
C11_BorrowerCannotDecide ==
  \A r \in Reqs :
    (/\ IsUpdateStatus(r)
     /\ CallerKnown(r)
     /\ inv[r].user.role = "borrower"
     /\ inv[r].application # NoItem
     /\ inv[r].application.userId = inv[r].user.userId
     /\ inv[r].application.status = UNDER_REVIEW
     /\ inv[r].newStatus \in {APPROVED, DENIED})
    => /\ Done(r)
       /\ inv[r].response = error(<<"Access denied">>, 403)
       /\ Untouching(r)

\* the response the order authentication, input validation, existence,
\* authorization, transition validity gives the request of invocation r
\* against the stored record
RejectionInOrder(r) ==
  LET I == inv[r]
      item == store[I.applicationId]
  IN  IF I.user = NoUser
        THEN error(<<"Unauthorized">>, 401)
      ELSE IF I.applicationId = NoId
        THEN error(<<"applicationId is required">>, 400)
      ELSE IF I.body \notin ApplicationStatus
        THEN error(<<"Validation failed">>, 400)
      ELSE IF item = NoItem
        THEN error(<<"Application not found">>, 404)
      ELSE IF item.userId # I.user.userId /\ I.user.role \notin {"loan_officer", "admin"}
        THEN error(<<"Access denied">>, 403)
      ELSE error(<<"Invalid status transition from", item.status, "to", I.body>>, 400)

\* C12: an updateStatus call that ends in 401, 400, 404 or 403 has sent no
\* write, no history entry and no event, and its response is the one of the
\* first check that fails in the order authentication, input validation,
\* existence, authorization, transition validity.
C12_RejectionsChangeNothing ==
  \A r \in Reqs :
    (IsUpdateStatus(r) /\ Done(r) /\ inv[r].response.statusCode \in {400, 401, 403, 404})
    => /\ Untouching(r)
       /\ inv[r].response = RejectionInOrder(r)
       /\ (/\ inv[r].application # NoItem
           /\ <<inv[r].application.status, inv[r].body>> \in TransitionTable)
            => inv[r].response.statusCode = 403

\* a borrower who does not own the application asks for an illegal
\* transition and is refused for the missing authorization
C12_Witness ==
  \E r \in Reqs :
    /\ IsUpdateStatus(r) /\ Done(r)
    /\ inv[r].response.statusCode = 403
    /\ inv[r].application.status = APPROVED
    /\ inv[r].body = DRAFT
    /\ Untouching(r)

\* the write of invocation r is in the log of committed writes
CommitLogged(r) ==
  \E i \in DOMAIN commits :
    /\ commits[i].applicationId = inv[r].applicationId
    /\ commits[i].from = inv[r].previousStatus
    /\ commits[i].to = inv[r].newStatus

\* C13: when the conditional write and the history append of an updateStatus
\* call succeeded and the publication of its event failed, the call reports
\* a failure to the caller, and the status change stays committed (it is not
\* rolled back).
C13_PublishFailureIsReported ==
  \A r \in Reqs :
    (/\ IsUpdateStatus(r) /\ Done(r)
     /\ obs[r].committed /\ obs[r].historyPut
     /\ obs[r].putEvents \in {"failed_entry", "thrown"})
    => /\ ~inv[r].response.success
       /\ inv[r].response.statusCode = 500
       /\ CommitLogged(r)
       /\ obs[r].published = {}

\* C14: the history append is best-effort: an updateStatus call whose
\* conditional write succeeded and whose history append failed keeps the
\* status change committed, goes on to publish the event and returns the
\* updated application.
C14_HistoryAppendIsBestEffort ==
  \A r \in Reqs :
    (IsUpdateStatus(r) /\ Done(r) /\ obs[r].committed /\ ~obs[r].historyPut)
    => /\ CommitLogged(r)
       /\ obs[r].publishAttempted
       /\ inv[r].response.success
       /\ inv[r].response.data # NoItem
       /\ inv[r].response.data.status = inv[r].newStatus

\* the step the specification assigns to an event's newStatus
StepFor(newStatus) ==
  CASE newStatus = SUBMITTED -> "Pre-validation completed"
    [] newStatus = UNDER_REVIEW -> "Credit check completed"
    [] newStatus = APPROVED -> "Application approved - ready for closing"
    [] OTHER -> "No processing required for status"

\* C15: the processor dispatches on the event's newStatus only (SUBMITTED
\* runs the pre-validation, UNDER_REVIEW the credit check, APPROVED logs the
\* closing marker, every other status is a no-op), and no step of the
\* processor changes the application records, the history or the event bus.
C15_ProcessorDispatchesAndWritesNothing ==
  [][processor' # processor =>
       /\ store' = store /\ history' = history /\ bus' = bus
       /\ processor'.log # processor.log =>
            LET e == processor'.log[Len(processor'.log)]
                record == processor.records[processor.i]
            IN  /\ e.messageId = record.messageId
                /\ ~e.threw =>
                     /\ e.newStatus = record.body.detail.newStatus
                     /\ e.step = StepFor(e.newStatus)
                     /\ (e.result = NoItem) <=> (e.newStatus \notin {SUBMITTED, UNDER_REVIEW})
                /\ e.threw => e.step = "none"]_vars

\* a batch with a DENIED event and an APPROVED event has been processed
C15_Witness ==
  /\ processor # NoBatch
  /\ processor.outcome = "completed"
  /\ \E i, j \in DOMAIN processor.log :
       /\ processor.log[i].newStatus = DENIED
       /\ processor.log[i].step = "No processing required for status"
       /\ processor.log[j].newStatus = APPROVED
       /\ processor.log[j].step = "Application approved - ready for closing"

\* the log entries of SUBMITTED events whose application record exists
SubmittedEntries ==
  {i \in DOMAIN processor.log :
     /\ processor.log[i].newStatus = SUBMITTED
     /\ store[processor.records[i].body.detail.applicationId] # NoItem}

\* C16: for a SUBMITTED event whose application record exists the
\* pre-validation does not throw; its result has passed = true exactly when
\* annualIncome > 0, loanAmount > 0, 0 <= downPaymentPercentage <= 100 and
\* first name, last name and email are non-empty; annualIncome <= 0 gives
\* incomePositive = false and passed = false; and the record adds no error
\* to the batch.
C16_PreValidationResult ==
  processor # NoBatch =>
    /\ \A i \in SubmittedEntries :
         LET e == processor.log[i]
             app == store[processor.records[i].body.detail.applicationId]
             b == app.borrowerInfo
             p == app.propertyInfo
         IN  /\ ~e.threw
             /\ e.step = "Pre-validation completed"
             /\ e.result.checks.incomePositive <=> (b.annualIncome > 0)
             /\ e.result.passed <=>
                  /\ b.annualIncome > 0
                  /\ p.loanAmount > 0
                  /\ p.downPaymentPercentage >= 0 /\ p.downPaymentPercentage <= 100
                  /\ b.firstName # "" /\ b.lastName # "" /\ b.email # ""
             /\ b.annualIncome <= 0 => (~e.result.checks.incomePositive /\ ~e.result.passed)
    /\ Len(processor.errors) = Cardinality({i \in DOMAIN processor.log : processor.log[i].threw})
    /\ (processor.outcome = "completed") => \A i \in DOMAIN processor.log : ~processor.log[i].threw

\* a SUBMITTED event for a record with annualIncome = 0 and nothing else
\* wrong: the pre-validation failed on the income alone and the batch completed
C16_Witness ==
  /\ processor # NoBatch
  /\ processor.outcome = "completed"
  /\ \E i \in SubmittedEntries :
       LET e == processor.log[i]
       IN  /\ store[processor.records[i].body.detail.applicationId].borrowerInfo.annualIncome = 0
           /\ ~e.result.passed
           /\ ~e.result.checks.incomePositive
           /\ e.result.checks.loanAmountPositive
           /\ e.result.checks.downPaymentValid
           /\ e.result.checks.borrowerInfoComplete

\* record k of the batch is one whose processing throws: its body is not
\* JSON, or holds no event, or names an application that does not exist
MustThrow(k) ==
  LET body == processor.records[k].body
  IN  \/ ~body.json
      \/ body.detail = NoDetail
      \/ store[body.detail.applicationId] = NoItem

\* C17: the batch handler attempts the records of the batch in order, each
\* one once, also after an earlier record has thrown; a record throws exactly
\* when its body cannot be read as an event or its application does not
\* exist; and the batch fails (the handler throws) if and only if at least
\* one record threw.
C17_BatchAttemptsAllAndFailsIffOneThrew ==
  processor # NoBatch =>
    /\ Len(processor.log) = processor.i - 1
    /\ \A k \in DOMAIN processor.log :
         /\ processor.log[k].messageId = processor.records[k].messageId
         /\ processor.log[k].threw <=> MustThrow(k)
    /\ processor.outcome # "running" =>
         /\ Len(processor.log) = Len(processor.records)
         /\ (processor.outcome = "thrown") <=> (\E k \in DOMAIN processor.records : MustThrow(k))
         /\ Len(processor.errors) = Cardinality({k \in DOMAIN processor.records : MustThrow(k)})

\* the first record of a batch threw, the second one was processed all the
\* same, and the batch failed
C17_Witness ==
  /\ processor # NoBatch
  /\ processor.outcome = "thrown"
  /\ Len(processor.log) = 2
  /\ processor.log[1].threw
  /\ ~processor.log[2].threw
  /\ processor.log[2].step = "Credit check completed"

\* a finished call of one of the two transition checks
IsTransitionCheck(fn) == call # NoCall /\ call.fn = fn /\ call.done

\* C18: the transition check has no failure mode: validateStatusTransition
\* returns false, and does not throw, when the current status or the target
\* status is a value outside the seven known statuses.
C18_TransitionCheckNeverThrows ==
  (/\ IsTransitionCheck("validateStatusTransition")
   /\ \/ call.args.currentStatus \notin ApplicationStatus
      \/ call.args.newStatus \notin ApplicationStatus)
    => (~call.threw /\ call.value = FALSE)

\* C19: there is a single legal state machine: the shared package's
\* isValidStatusTransition and the API's validateStatusTransition return the
\* same boolean for every pair of the seven statuses, and both return false
\* for every pair whose source is APPROVED, DENIED or WITHDRAWN.
C19_SingleStateMachine ==
  (/\ \/ IsTransitionCheck("validateStatusTransition")
      \/ IsTransitionCheck("isValidStatusTransition")
   /\ call.args.currentStatus \in ApplicationStatus
   /\ call.args.newStatus \in ApplicationStatus)
    => /\ ~call.threw
       /\ call.value = validateStatusTransition(call.args.currentStatus, call.args.newStatus)
       /\ call.value = isValidStatusTransition(call.args.currentStatus, call.args.newStatus)
       /\ call.args.currentStatus \in {APPROVED, DENIED, WITHDRAWN} => call.value = FALSE

\* the groups that a cognito:groups claim names: the elements of the array,
\* or the names that the string lists between its commas
NamedGroups(cognitoGroups) ==
  IF cognitoGroups.kind = "undefined"
    THEN {}
    ELSE LET names == IF cognitoGroups.kind = "array"
                        THEN cognitoGroups.value
                        ELSE CHOOSE g \in GroupArrays : join(g, Comma) = cognitoGroups.value
         IN  {names[i] : i \in DOMAIN names}

AdminGroups == {Str_admin, Group_Admins}
LoanOfficerGroups == {Str_loan_officer, Group_LoanOfficers}

\* the role that the groups claim stands for
NamedRole(cognitoGroups) ==
  IF NamedGroups(cognitoGroups) \cap AdminGroups # {} THEN "admin"
  ELSE IF NamedGroups(cognitoGroups) \cap LoanOfficerGroups # {} THEN "loan_officer"
  ELSE "borrower"

\* C20: extractUser returns null when the request carries no authorizer
\* claims or no non-empty sub claim; otherwise it returns the sub as userId
\* with exactly one role: admin when the groups claim names an admin group
\* (admin wins over loan_officer), loan_officer when it names a loan-officer
\* group, and borrower otherwise; hasElevatedRole is true exactly for admin
\* and loan_officer.
C20_ExtractUserRoles ==
  /\ (call # NoCall /\ call.fn = "extractUser" /\ call.done)
       => LET claims == call.args.event.claims
          IN  IF claims = NoClaims
                THEN call.value = NoUser
              ELSE IF claims.sub \in {NoSub, ""}
                THEN call.value = NoUser
              ELSE /\ call.value # NoUser
                   /\ call.value.userId = claims.sub
                   /\ call.value.role = NamedRole(claims.groups)
  /\ (call # NoCall /\ call.fn = "hasElevatedRole" /\ call.done)
       => (call.value <=> call.args.user.role \in {"admin", "loan_officer"})

\* the values a history item carries besides its key and its timestamp
HistoryData(h) == {h[f] : f \in DOMAIN h \ {"PK", "SK", "timestamp"}}

\* C21: every status transition is recorded in the audit trail with its
\* timestamp and its actor: the history entry written for a transition
\* identifies the caller who performed it.
C21_HistoryNamesActor ==
  \A r \in Reqs :
    (inv[r].handler = "updateStatus" /\ obs[r].historyPut)
      => \E h \in history :
           /\ h.PK = buildPK(inv[r].applicationId)
           /\ h.timestamp = inv[r].now
           /\ inv[r].user.userId \in HistoryData(h)

\* the application that a queued message is about does not exist
ApplicationMissing(m) ==
  /\ queue[m].body.json
  /\ queue[m].body.detail # NoDetail
  /\ getApplication(queue[m].body.detail.applicationId) = NoItem

\* C22: under the redrive policy (maxReceiveCount = 3) and fair delivery,
\* every message on the processing queue is eventually either handled by a
\* batch invocation that completes without throwing (and deleted) or moved
\* to the dead-letter queue after at most 3 receives; a message whose
\* application does not exist always ends in the dead-letter queue.
C22_HandledOrDeadLettered ==
  \A m \in Msgs :
    /\ <>(queue[m].place \in {"deleted", "dlq"})
    /\ [](queue[m].receiveCount <= maxReceiveCount)
    /\ [](queue[m].place = "dlq" => queue[m].receiveCount = maxReceiveCount)
    /\ [](ApplicationMissing(m) => queue[m].place # "deleted")
    /\ (ApplicationMissing(m) => <>[](queue[m].place = "dlq"))

C22_Witness ==
  /\ queue # NoQueue
  /\ \E m \in Msgs :
       /\ ApplicationMissing(m)
       /\ queue[m].place = "dlq"
       /\ queue[m].receiveCount = maxReceiveCount

\* invocation r starts and ends as createApplication in this step
CreateStep(r) == inv[r].pc = "idle" /\ inv'[r].handler = "createApplication"

\* C23: every application is created in status DRAFT, owned by the
\* authenticated caller (never by a userId taken from the request body), with
\* createdAt equal to updatedAt, with no history entry and no published
\* event; creating an application never overwrites a record that already
\* exists under the same id.
C23_CreatedAsOwnDraft ==
  [][\A r \in Reqs :
       CreateStep(r) =>
         /\ history' = history
         /\ bus' = bus
         /\ \A a \in Apps :
              \/ store'[a] = store[a]
              \/ /\ store[a] = NoItem
                 /\ inv'[r].response.statusCode = 201
                 /\ inv'[r].applicationId = a
                 /\ store'[a].status = DRAFT
                 /\ store'[a].userId = inv'[r].user.userId
                 /\ store'[a].createdAt = store'[a].updatedAt
         /\ inv'[r].response.statusCode = 201
              => store'[inv'[r].applicationId] # store[inv'[r].applicationId]]_vars

C23_Witness ==
  \E r \in Reqs :
    /\ inv[r].handler = "createApplication"
    /\ inv[r].response.statusCode = 201
    /\ inv[r].body = "u1"
    /\ inv[r].user.userId = "u2"
    /\ store[inv[r].applicationId].userId = "u2"
    /\ store[inv[r].applicationId].status = DRAFT
    /\ history = {}
    /\ bus = <<>>

\* invocation r is a listing
IsListing(r) == inv[r].handler = "listApplications"

\* C24: listApplications never shows a caller applications they may not
\* see: a caller without an elevated role gets only applications whose userId
\* is the caller's own (any status filter they send is ignored), and an
\* elevated caller who sends no status filter gets no application in DRAFT.
C24_ListShowsOnlyPermitted ==
  \A r \in Reqs :
    (IsListing(r) /\ inv[r].user # NoUser) =>
      /\ ~hasElevatedRole(inv[r].user)
           => \A app \in inv[r].items : app.userId = inv[r].user.userId
      /\ (hasElevatedRole(inv[r].user) /\ inv[r].statusFilter \in {NoFilter, ""})
           => \A app \in inv[r].items : app.status # DRAFT

C24_Witness ==
  \E r \in Reqs :
    /\ IsListing(r)
    /\ inv[r].user = [userId |-> "u1", role |-> "borrower"]
    /\ inv[r].statusFilter = SUBMITTED
    /\ inv[r].response # NoResponse
    /\ inv[r].response.statusCode = 200
    /\ \E app \in inv[r].response.data.items : app.status = DRAFT
    /\ \E a \in ListApps : store[a] # NoItem /\ store[a].userId = "u2"

\* the signature header carries the HMAC of the raw body under the secret
SignatureMatches(rawBody, signature) ==
  /\ signature # NoSignature
  /\ signature.digest = HmacSha256(WEBHOOK_SECRET, rawBody)

\* the answer the webhook owes a request, by the first check that fails
\* (0: the request is fully valid)
OwedStatusCode(signature, rawBody) ==
  IF signature = NoSignature \/ signature = EmptySignature THEN 401
  ELSE IF ~SignatureMatches(rawBody, signature) THEN 401
  ELSE IF rawBody.kind = "malformed" THEN 500
  ELSE IF rawBody.kind = "bad_schema" THEN 400
  ELSE IF rawBody.externalStatus \notin DOMAIN EXTERNAL_STATUS_MAP THEN 400
  ELSE IF store[rawBody.applicationId] = NoItem THEN 404
  ELSE 0

\* invocation r starts as statusChangeWebhook in this step and is rejected
WebhookRejected(r) ==
  /\ inv[r].pc = "idle"
  /\ inv'[r].handler = "statusChangeWebhook"
  /\ inv'[r].pc = "done"

RejectedAsInvalidTransition ==
  /\ IsApplicationPage
  /\ web.statusCode = 400
  /\ web.error # NoError
  /\ web.error[1] = "Invalid status transition from"

\* C26: every status action the application detail page offers for an
\* application in status s (the loan-officer buttons of VALID_TRANSITIONS[s],
\* the borrower's Submit on DRAFT, and the Withdraw button whenever
\* canWithdraw holds) is a transition the backend's validateStatusTransition
\* accepts from s, so an offered action is never rejected as an invalid
\* transition.
C26_OfferedActionsAreValid == ~RejectedAsInvalidTransition

\* what the wizard's schemas say of the step on screen
StepValid(k) ==
  IF k = 1 THEN PersonalInfoSchema(web.formData.personal)
  ELSE IF k = 2 THEN PropertyInfoSchema(web.formData.property)
  ELSE web.formData.confirmAccurate

NavigationEvents == {"handleNext", "handleBack", "handleStepClick"}

WizardStep ==
  /\ IsNewApplicationPage
  /\ web' # web

\* C27: in the new-application wizard the current step is always 1, 2 or 3;
\* the step only ever grows by one, and only when the schema of the step on
\* screen accepts the form; a Next on a form the schema refuses leaves the step
\* where it is and shows errors; Back goes one step back and a click on an
\* earlier step goes to that step; none of these changes the form data.
C27_WizardNavigation ==
  [][WizardStep =>
       /\ web.currentStep \in 1..3 /\ web'.currentStep \in 1..3
       /\ web'.currentStep > web.currentStep =>
            /\ web'.currentStep = web.currentStep + 1
            /\ StepValid(web.currentStep)
       /\ (web'.event.name = "handleNext" /\ ~StepValid(web.currentStep)) =>
            /\ web'.currentStep = web.currentStep
            /\ web'.errors # {}
       /\ web'.event.name = "handleBack" =>
            web'.currentStep = web.currentStep - 1
       /\ (web'.event.name = "handleStepClick" /\ web'.event.step < web.currentStep) =>
            web'.currentStep = web'.event.step
       /\ web'.event.name \in NavigationEvents =>
            web'.formData = web.formData]_vars

\* a Next refused on step 2, after step 1 was passed
C27_Witness ==
  /\ IsNewApplicationPage
  /\ web.currentStep = 2
  /\ web.event.name = "handleNext"
  /\ web.errors # {}
  /\ web.formData # INITIAL_FORM_DATA

Endings == {"handleSubmit", "handleSaveAsDraft"}

\* C28: both endings of the wizard create the same thing.  Save as Draft
\* sends one create request; Submit Application sends one when the
\* confirmation is checked and none otherwise; both carry the same
\* application data; neither touches the table or the bus by itself; and the
\* answer to either request adds at most one application, in status DRAFT,
\* changes no other item, and publishes nothing.
C28_BothEndingsCreateADraft ==
  [][WizardStep =>
       /\ web'.event.name = "handleSaveAsDraft" =>
            /\ web'.sent = web.sent + 1
            /\ web'.request # NoRequest
            /\ web'.request.body = buildSubmissionData
       /\ web'.event.name = "handleSubmit" =>
            IF web.formData.confirmAccurate
              THEN /\ web'.sent = web.sent + 1
                   /\ web'.request # NoRequest
                   /\ web'.request.body = buildSubmissionData
              ELSE /\ web'.sent = web.sent
                   /\ web'.request = web.request
       /\ web'.event.name \in Endings => store' = store /\ bus' = bus
       /\ web'.event.name = "createApplication" =>
            /\ bus' = bus
            /\ history' = history
            /\ Cardinality({a \in DOMAIN store : store'[a] # store[a]}) <= 1
            /\ \A a \in DOMAIN store :
                 store'[a] # store[a] =>
                   /\ store[a] = NoItem
                   /\ store'[a].status = DRAFT
                   /\ store'[a].GSI2PK = DRAFT]_vars

\* one application created by each ending, both drafts
C28_Witness ==
  /\ IsNewApplicationPage
  /\ web.event.name = "createApplication"
  /\ \E a, b \in web.created :
       /\ store[a].notes = NoNotes /\ store[a].status = DRAFT
       /\ store[b].notes = "Saved as draft" /\ store[b].status = DRAFT

\* C29: in useAuth, once signIn has resolved with success the hook holds a
\* user, and keeps holding one until a signOut succeeds, whatever the order in
\* which the mount-time session check and the sign-in run.
C29_SignedInStaysAuthenticated ==
  (IsUseAuth /\ web.signedIn) => isAuthenticated

\* a request that carries no authorizer claims, outside local development
Unclaimed ==
  /\ call # NoCall
  /\ call.done
  /\ call.fn \in ProtectedHandlers \cup {"extractUser"}
  /\ ~call.args.isLocalDev
  /\ call.args.event.claims = NoClaims

\* C30: outside local development extractUser returns no user for a request
\* without authorizer claims, whatever its Authorization header holds, and
\* each protected handler answers such a request 401 Unauthorized, having
\* loaded or built nothing and with no call to the table left to make.
C30_NoClaimsNoAccess ==
  Unclaimed =>
    IF call.fn = "extractUser"
      THEN call.value = NoUser
      ELSE /\ call.value.pc = "done"
           /\ call.value.response = error(<<"Unauthorized">>, 401)
           /\ call.value.application = NoItem

\* the owner's mock token sent to updateStatus over the owner's draft
C30_Witness ==
  /\ Unclaimed
  /\ call.fn = "updateStatus"
  /\ store["a1"] # NoItem
  /\ call.args.event.authorization # NoHeader
  /\ call.args.event.authorization.mock
  /\ call.args.event.authorization.payload # NoClaims
  /\ call.args.event.authorization.payload.sub = "u1"
  /\ call.value.response.statusCode = 401

====
